---- MODULE Spec2Model ----
(***************************************************************************)
(* Model of the maritime data-fetch layer of OpenSeaMap-Explorer           *)
(* (src/src/services/maritimeService.ts): the fingerprint cache, the       *)
(* rate-limited request queue and the cached fetch operations, run on the  *)
(* single-threaded JavaScript event loop.                                  *)
(*                                                                         *)
(* One action is one macrotask of the event loop together with all the     *)
(* microtasks (promise continuations) it triggers: a call of a fetch       *)
(* operation by the UI, the settlement of a network call, the firing of    *)
(* the queue's setTimeout, or the passing of wall-clock time.              *)
(***************************************************************************)
EXTENDS Integers, Sequences, FiniteSets, TLC

\* ------------------------------------------------------------------ bounds
MaxCalls == 3          \* fetch operations invoked in one behaviour
MaxTicks == 1          \* clock advances that are not forced by a pending timer
MaxLiveCalls == 2      \* fetch operations invoked in a behaviour checked for liveness
MaxMarkers == 3        \* putHarbourMarker calls in a text given to the parser
MaxOps == 3            \* operations of the store's users in one behaviour
MaxPoints == 3         \* points clicked in one measurement
MaxPaths == 3          \* measurements saved in one behaviour

\* ------------------------------------------------------- program constants
API_RATE_LIMIT == 5
CACHE_EXPIRY == 30 * 60 * 1000

\* Granularity of the clock: the delay of line 61, in milliseconds.
TickMs == 1000 \div API_RATE_LIMIT

VARIABLES
    now,              \* Date.now(), in milliseconds
    ticks,            \* number of clock advances so far
    cache,            \* cache: key -> [data, timestamp], defined on the stored keys
    requestQueue,     \* requestQueue: sequence of the ids of the queued tasks
    processingQueue,  \* processingQueue flag
    loops,            \* active processQueue invocations, each suspended at an await
    calls,            \* one record per fetch operation invoked so far
    startOrder,       \* ids of the queued tasks in the order request() was called
    enqueueOrder,     \* ids of the queued tasks in the order queueRequest was called
    lastSettle,       \* the queued task that settled last, and when
    markerShapes,     \* the calls the harbour text given to the parser is made of
    harborText,       \* the harbour text given to parseHarborData
    parsedHarbors,    \* the records parseHarborData returned for it
    mapSettings,      \* mapSettings.value of the store
    windyOptions,     \* windyOptions.value of the store
    defaultWindyOptions, \* the defaultWindyOptions object of the store
    windyIsDefault,   \* windyOptions.value is the defaultWindyOptions object
    userLocation,     \* userLocation.value of the store
    storage,          \* the item 'mapSettings' of localStorage
    storageHealth,    \* ok, readFails (getItem throws) or writeFails (setItem throws)
    uncaught,         \* an exception has left a store operation
    harborFacilities, \* harborFacilities.value of the map component
    harborLoads,      \* the fetches loadHarborFacilities is awaiting
    storeOps,         \* number of operations of the store's users so far
    opLog,            \* the last two of these operations
    measurementPaths, \* measurementPaths.value of the store
    activeMeasurementId, \* activeMeasurementId.value of the store
    isMeasuring,      \* isMeasuring.value of the measurement tool
    currentPath,      \* currentPath.value of the measurement tool
    uuids,            \* number of ids uuidv4 has handed out
    toolOp,           \* the last operation on the measurement tool
    gridZoom,         \* the zoom updateCoordinateGrid last read from the map
    gridBounds,       \* the bounds updateCoordinateGrid last read from the map
    gridLines         \* the lines and labels in gridLayer

serviceVars == <<cache, requestQueue, processingQueue, loops, calls,
                 startOrder, enqueueOrder, lastSettle>>

parserVars == <<markerShapes, harborText, parsedHarbors>>

memoryVars == <<mapSettings, windyOptions, defaultWindyOptions, windyIsDefault,
                userLocation, storage, storageHealth, uncaught,
                measurementPaths, activeMeasurementId>>

storeVars == <<memoryVars, harborFacilities, harborLoads, storeOps, opLog>>

toolVars == <<isMeasuring, currentPath, uuids, toolOp, gridZoom, gridBounds,
             gridLines>>

vars == <<now, ticks, serviceVars, parserVars, storeVars, toolVars>>

\* The map bounds the UI passes to the fetch operations: the viewport stays
\* where it is, so the keys differ by operation.
Viewports == {"viewport"}

\* The mutable module state of maritimeService.ts, as one value.
State ==
    [cache |-> cache, requestQueue |-> requestQueue,
     processingQueue |-> processingQueue, loops |-> loops, calls |-> calls,
     startOrder |-> startOrder, enqueueOrder |-> enqueueOrder,
     lastSettle |-> lastSettle]

Commit(S) ==
    /\ cache' = S.cache
    /\ requestQueue' = S.requestQueue
    /\ processingQueue' = S.processingQueue
    /\ loops' = S.loops
    /\ calls' = S.calls
    /\ startOrder' = S.startOrder
    /\ enqueueOrder' = S.enqueueOrder
    /\ lastSettle' = S.lastSettle

\* ------------------------------------------------------- numbers of the code
\* The numbers of the code are IEEE-754 binary64 values. Their significands
\* have 53 bits, more than an integer of TLC holds, so naturals are kept as
\* sequences of limbs, least significant first, without leading zero limbs.
Base == 32768
LimbBits == 15
SignificandBits == 53

RECURSIVE BigTrim(_)
BigTrim(a) ==
    IF a = << >> THEN << >>
    ELSE IF a[Len(a)] = 0 THEN BigTrim(SubSeq(a, 1, Len(a) - 1)) ELSE a

RECURSIVE BigOfInt(_)
BigOfInt(n) == IF n = 0 THEN << >> ELSE <<n % Base>> \o BigOfInt(n \div Base)

Limb(a, i) == IF i <= Len(a) THEN a[i] ELSE 0

RECURSIVE BigAddFrom(_, _, _, _)
BigAddFrom(a, b, i, carry) ==
    IF i > Len(a) /\ i > Len(b)
    THEN IF carry = 0 THEN << >> ELSE <<carry>>
    ELSE LET s == Limb(a, i) + Limb(b, i) + carry
         IN  <<s % Base>> \o BigAddFrom(a, b, i + 1, s \div Base)

BigAdd(a, b) == BigAddFrom(a, b, 1, 0)

\* a - b for a >= b.
RECURSIVE BigSubFrom(_, _, _, _)
BigSubFrom(a, b, i, borrow) ==
    IF i > Len(a) THEN << >>
    ELSE LET d == Limb(a, i) - Limb(b, i) - borrow
         IN  <<(d + Base) % Base>> \o BigSubFrom(a, b, i + 1, IF d < 0 THEN 1 ELSE 0)

BigSub(a, b) == BigTrim(BigSubFrom(a, b, 1, 0))

\* -1, 0 or 1 as a is less than, equal to or greater than b.
RECURSIVE BigCmpFrom(_, _, _)
BigCmpFrom(a, b, i) ==
    IF i = 0 THEN 0
    ELSE IF a[i] < b[i] THEN -1
    ELSE IF a[i] > b[i] THEN 1
    ELSE BigCmpFrom(a, b, i - 1)

BigCmp(a, b) ==
    IF Len(a) < Len(b) THEN -1
    ELSE IF Len(a) > Len(b) THEN 1
    ELSE BigCmpFrom(a, b, Len(a))

\* a * k for a limb k.
RECURSIVE BigMulSmallFrom(_, _, _, _)
BigMulSmallFrom(a, k, i, carry) ==
    IF i > Len(a)
    THEN IF carry = 0 THEN << >> ELSE <<carry>>
    ELSE LET p == a[i] * k + carry
         IN  <<p % Base>> \o BigMulSmallFrom(a, k, i + 1, p \div Base)

BigMulSmall(a, k) == IF k = 0 THEN << >> ELSE BigMulSmallFrom(a, k, 1, 0)

RECURSIVE BigMul(_, _)
BigMul(a, b) ==
    IF a = << >> \/ b = << >> THEN << >>
    ELSE BigAdd(BigMulSmall(a, b[1]),
                LET rest == BigMul(a, Tail(b))
                IN  IF rest = << >> THEN << >> ELSE <<0>> \o rest)

\* The quotient digits of a by a limb k, most significant limb first.
RECURSIVE BigDivSmallFrom(_, _, _, _)
BigDivSmallFrom(a, k, i, rem) ==
    IF i = 0 THEN << >>
    ELSE LET cur == rem * Base + a[i]
         IN  BigDivSmallFrom(a, k, i - 1, cur % k) \o <<cur \div k>>

BigDivSmall(a, k) == BigTrim(BigDivSmallFrom(a, k, Len(a), 0))

RECURSIVE Pow2(_)
Pow2(n) == IF n = 0 THEN 1 ELSE 2 * Pow2(n - 1)

Zeros(n) == [i \in 1..n |-> 0]

BigShl(a, n) ==
    IF a = << >> THEN << >>
    ELSE Zeros(n \div LimbBits) \o BigMulSmall(a, Pow2(n % LimbBits))

BigShr(a, n) ==
    IF n \div LimbBits >= Len(a) THEN << >>
    ELSE BigDivSmall(SubSeq(a, n \div LimbBits + 1, Len(a)), Pow2(n % LimbBits))

RECURSIVE BitLen(_)
BitLen(n) == IF n = 0 THEN 0 ELSE 1 + BitLen(n \div 2)

BigBitLen(a) == IF a = << >> THEN 0 ELSE LimbBits * (Len(a) - 1) + BitLen(a[Len(a)])

BigOdd(a) == a # << >> /\ a[1] % 2 = 1

\* The largest limb d in lo..hi with b * d <= r.
RECURSIVE QuotientDigit(_, _, _, _)
QuotientDigit(r, b, lo, hi) ==
    IF lo = hi THEN lo
    ELSE LET mid == (lo + hi + 1) \div 2
         IN  IF BigCmp(BigMulSmall(b, mid), r) <= 0
             THEN QuotientDigit(r, b, mid, hi)
             ELSE QuotientDigit(r, b, lo, mid - 1)

\* Long division of a by b # 0, from limb i of a down, with remainder r so
\* far: the quotient and the remainder.
RECURSIVE BigDivModFrom(_, _, _, _, _)
BigDivModFrom(a, b, i, r, q) ==
    IF i = 0 THEN [quot |-> BigTrim(q), rem |-> r]
    ELSE LET cur == BigTrim(<<a[i]>> \o r)
             d == QuotientDigit(cur, b, 0, Base - 1)
         IN  BigDivModFrom(a, b, i - 1, BigSub(cur, BigMulSmall(b, d)), <<d>> \o q)

BigDivMod(a, b) == BigDivModFrom(a, b, Len(a), << >>, << >>)

\* A number of the code: NaN, or (-1)^neg * m * 2^e with m = 0 or
\* 2^52 <= m < 2^53. Infinities, subnormal numbers and the sign of zero do
\* not occur in the computations modelled.
NaN == [nan |-> TRUE, neg |-> FALSE, m |-> << >>, e |-> 0]
Zero == [nan |-> FALSE, neg |-> FALSE, m |-> << >>, e |-> 0]

IsZero(x) == ~x.nan /\ x.m = << >>

\* Round to nearest, ties to even: the number nearest to
\* (-1)^neg * (m + s) * 2^e, where 0 < s < 1 if sticky and s = 0 otherwise.
RoundToNearestEven(neg, m, e, sticky) ==
    LET len == BigBitLen(m)
        drop == len - SignificandBits
    IN  IF m = << >> THEN Zero
        ELSE IF drop <= 0
        THEN [nan |-> FALSE, neg |-> neg, m |-> BigShl(m, -drop), e |-> e + drop]
        ELSE LET q == BigShr(m, drop)
                 rem == BigSub(m, BigShl(q, drop))
                 half == BigShl(<<1>>, drop - 1)
                 c == BigCmp(rem, half)
                 up == c > 0 \/ (c = 0 /\ (sticky \/ BigOdd(q)))
                 r == IF up THEN BigAdd(q, <<1>>) ELSE q
             IN  IF BigBitLen(r) > SignificandBits
                 THEN [nan |-> FALSE, neg |-> neg, m |-> BigShr(r, 1), e |-> e + drop + 1]
                 ELSE [nan |-> FALSE, neg |-> neg, m |-> r, e |-> e + drop]

Num(n) == RoundToNearestEven(n < 0, BigOfInt(IF n < 0 THEN -n ELSE n), 0, FALSE)

Neg(x) == IF x.nan \/ x.m = << >> THEN x ELSE [x EXCEPT !.neg = ~x.neg]

\* x + y.
Plus(x, y) ==
    IF x.nan \/ y.nan THEN NaN
    ELSE IF x.m = << >> THEN y
    ELSE IF y.m = << >> THEN x
    ELSE IF x.e - y.e > SignificandBits + 2 THEN x
    ELSE IF y.e - x.e > SignificandBits + 2 THEN y
    ELSE LET e == IF x.e < y.e THEN x.e ELSE y.e
             a == BigShl(x.m, x.e - e)
             b == BigShl(y.m, y.e - e)
             c == BigCmp(a, b)
         IN  IF x.neg = y.neg THEN RoundToNearestEven(x.neg, BigAdd(a, b), e, FALSE)
             ELSE IF c = 0 THEN Zero
             ELSE IF c > 0 THEN RoundToNearestEven(x.neg, BigSub(a, b), e, FALSE)
             ELSE RoundToNearestEven(y.neg, BigSub(b, a), e, FALSE)

Minus(x, y) == Plus(x, Neg(y))

\* x * y.
Times(x, y) ==
    IF x.nan \/ y.nan THEN NaN
    ELSE RoundToNearestEven(x.neg # y.neg, BigMul(x.m, y.m), x.e + y.e, FALSE)

\* x / y for y # 0.
Over(x, y) ==
    IF x.nan \/ y.nan THEN NaN
    ELSE LET d == BigDivMod(BigShl(x.m, 4 * LimbBits), y.m)
         IN  RoundToNearestEven(x.neg # y.neg, d.quot, x.e - 4 * LimbBits - y.e,
                                d.rem # << >>)

\* The decimal literal num/den.
Literal(num, den) == Over(Num(num), Num(den))

\* x < y, x <= y (false when either is NaN).
Less(x, y) ==
    /\ ~x.nan /\ ~y.nan
    /\ LET d == Minus(x, y) IN d.m # << >> /\ d.neg

LessEq(x, y) ==
    /\ ~x.nan /\ ~y.nan
    /\ LET d == Minus(x, y) IN d.m = << >> \/ d.neg

\* Math.floor and Math.ceil.
Magnitude(x) ==
    IF x.e >= 0 THEN [whole |-> BigShl(x.m, x.e), fraction |-> FALSE]
    ELSE LET w == BigShr(x.m, -x.e)
         IN  [whole |-> w, fraction |-> BigShl(w, -x.e) # x.m]

MathFloor(x) ==
    IF x.nan THEN NaN
    ELSE LET g == Magnitude(x)
         IN  IF x.neg /\ g.fraction
             THEN RoundToNearestEven(TRUE, BigAdd(g.whole, <<1>>), 0, FALSE)
             ELSE RoundToNearestEven(x.neg, g.whole, 0, FALSE)

MathCeil(x) ==
    IF x.nan THEN NaN
    ELSE LET g == Magnitude(x)
         IN  IF ~x.neg /\ g.fraction
             THEN RoundToNearestEven(FALSE, BigAdd(g.whole, <<1>>), 0, FALSE)
             ELSE RoundToNearestEven(x.neg, g.whole, 0, FALSE)

\* Math.abs.
MathAbs(x) == IF x.nan THEN NaN ELSE [x EXCEPT !.neg = FALSE]

\* Math.round: the nearest integer, the greater one for a value half way
\* between two.
MathRound(x) ==
    IF x.nan THEN NaN
    ELSE IF x.e >= 0 THEN x
    ELSE LET whole == BigShr(x.m, -x.e)
             c == BigCmp(BigSub(x.m, BigShl(whole, -x.e)), BigShl(<<1>>, -x.e - 1))
         IN  IF (x.neg /\ c > 0) \/ (~x.neg /\ c >= 0)
             THEN RoundToNearestEven(x.neg, BigAdd(whole, <<1>>), 0, FALSE)
             ELSE RoundToNearestEven(x.neg, whole, 0, FALSE)

\* The integer a number is, for the whole numbers below Base * Base.
Integer(x) ==
    (IF x.neg THEN -1 ELSE 1)
        * (Limb(Magnitude(x).whole, 1) + Base * Limb(Magnitude(x).whole, 2))

\* ------------------------------------------------------------------ geodesy
\* The points clicked on the map, [latitude, longitude] in degrees: the
\* origin, two points opposite each other on the globe, and two harbours.
Points == {<<Num(0), Num(0)>>, <<Num(8), Num(-90)>>, <<Num(-8), Num(90)>>,
           <<Num(53), Num(10)>>, <<Num(-34), Num(18)>>}

\* The point clicked while several measurements are taken and removed.
SurveyPoints == {<<Num(53), Num(10)>>}

\* Math.PI.
MathPI == [nan |-> FALSE, neg |-> FALSE, m |-> <<11544, 10376, 2029, 201>>, e |-> -51]

\* Math.sin at the arguments that occur for Points.
SinTable ==
    ([nan |-> FALSE, neg |-> TRUE, m |-> <<7481, 17573, 32026, 142>>, e |-> -56]
        :> [nan |-> FALSE, neg |-> TRUE, m |-> <<20776, 23252, 28221, 142>>, e |-> -56]) @@
    ([nan |-> FALSE, neg |-> TRUE, m |-> <<17543, 5582, 23649, 178>>, e |-> -56]
        :> [nan |-> FALSE, neg |-> TRUE, m |-> <<258, 29061, 16218, 178>>, e |-> -56]) @@
    ([nan |-> FALSE, neg |-> TRUE, m |-> <<7481, 17573, 32026, 142>>, e |-> -55]
        :> [nan |-> FALSE, neg |-> TRUE, m |-> <<7705, 11547, 16818, 142>>, e |-> -55]) @@
    ([nan |-> FALSE, neg |-> TRUE, m |-> <<28896, 27961, 27837, 160>>, e |-> -55]
        :> [nan |-> FALSE, neg |-> TRUE, m |-> <<21365, 20304, 6189, 160>>, e |-> -55]) @@
    ([nan |-> FALSE, neg |-> TRUE, m |-> <<16253, 3980, 11083, 232>>, e |-> -55]
        :> [nan |-> FALSE, neg |-> TRUE, m |-> <<18037, 28059, 11464, 230>>, e |-> -55]) @@
    ([nan |-> FALSE, neg |-> TRUE, m |-> <<18189, 6383, 29932, 151>>, e |-> -54]
        :> [nan |-> FALSE, neg |-> TRUE, m |-> <<21960, 7943, 22751, 149>>, e |-> -54]) @@
    ([nan |-> FALSE, neg |-> TRUE, m |-> <<28251, 27160, 21554, 187>>, e |-> -54]
        :> [nan |-> FALSE, neg |-> TRUE, m |-> <<21308, 16285, 15872, 183>>, e |-> -54]) @@
    ([nan |-> FALSE, neg |-> TRUE, m |-> <<11544, 10376, 2029, 201>>, e |-> -54]
        :> [nan |-> FALSE, neg |-> TRUE, m |-> <<10595, 19805, 30602, 195>>, e |-> -54]) @@
    ([nan |-> FALSE, neg |-> TRUE, m |-> <<21606, 31153, 26419, 236>>, e |-> -54]
        :> [nan |-> FALSE, neg |-> TRUE, m |-> <<7492, 2925, 14853, 228>>, e |-> -54]) @@
    ([nan |-> FALSE, neg |-> TRUE, m |-> <<15834, 9581, 9021, 136>>, e |-> -53]
        :> [nan |-> FALSE, neg |-> TRUE, m |-> <<13845, 12184, 30468, 129>>, e |-> -53]) @@
    ([nan |-> FALSE, neg |-> TRUE, m |-> <<28896, 27961, 27837, 160>>, e |-> -53]
        :> [nan |-> FALSE, neg |-> TRUE, m |-> <<23134, 2282, 15500, 150>>, e |-> -53]) @@
    ([nan |-> FALSE, neg |-> TRUE, m |-> <<17543, 5582, 23649, 178>>, e |-> -53]
        :> [nan |-> FALSE, neg |-> TRUE, m |-> <<5660, 9336, 18141, 164>>, e |-> -53]) @@
    ([nan |-> FALSE, neg |-> TRUE, m |-> <<19897, 2384, 11792, 194>>, e |-> -53]
        :> [nan |-> FALSE, neg |-> TRUE, m |-> <<796, 22954, 7168, 176>>, e |-> -53]) @@
    ([nan |-> FALSE, neg |-> TRUE, m |-> <<11544, 10376, 2029, 201>>, e |-> -53]
        :> [nan |-> FALSE, neg |-> TRUE, m |-> <<15308, 19710, 633, 181>>, e |-> -53]) @@
    ([nan |-> FALSE, neg |-> TRUE, m |-> <<5545, 15170, 13177, 223>>, e |-> -53]
        :> [nan |-> FALSE, neg |-> TRUE, m |-> <<20537, 17822, 3518, 196>>, e |-> -53]) @@
    ([nan |-> FALSE, neg |-> TRUE, m |-> <<26960, 25558, 8988, 241>>, e |-> -53]
        :> [nan |-> FALSE, neg |-> TRUE, m |-> <<29864, 14127, 3550, 207>>, e |-> -53]) @@
    ([nan |-> FALSE, neg |-> TRUE, m |-> <<11544, 10376, 2029, 201>>, e |-> -52]
        :> [nan |-> FALSE, neg |-> TRUE, m |-> <<0, 0, 0, 128>>, e |-> -52]) @@
    (Zero
        :> Zero) @@
    ([nan |-> FALSE, neg |-> FALSE, m |-> <<7481, 17573, 32026, 142>>, e |-> -56]
        :> [nan |-> FALSE, neg |-> FALSE, m |-> <<20776, 23252, 28221, 142>>, e |-> -56]) @@
    ([nan |-> FALSE, neg |-> FALSE, m |-> <<17543, 5582, 23649, 178>>, e |-> -56]
        :> [nan |-> FALSE, neg |-> FALSE, m |-> <<258, 29061, 16218, 178>>, e |-> -56]) @@
    ([nan |-> FALSE, neg |-> FALSE, m |-> <<7481, 17573, 32026, 142>>, e |-> -55]
        :> [nan |-> FALSE, neg |-> FALSE, m |-> <<7705, 11547, 16818, 142>>, e |-> -55]) @@
    ([nan |-> FALSE, neg |-> FALSE, m |-> <<28896, 27961, 27837, 160>>, e |-> -55]
        :> [nan |-> FALSE, neg |-> FALSE, m |-> <<21365, 20304, 6189, 160>>, e |-> -55]) @@
    ([nan |-> FALSE, neg |-> FALSE, m |-> <<16253, 3980, 11083, 232>>, e |-> -55]
        :> [nan |-> FALSE, neg |-> FALSE, m |-> <<18037, 28059, 11464, 230>>, e |-> -55]) @@
    ([nan |-> FALSE, neg |-> FALSE, m |-> <<18189, 6383, 29932, 151>>, e |-> -54]
        :> [nan |-> FALSE, neg |-> FALSE, m |-> <<21960, 7943, 22751, 149>>, e |-> -54]) @@
    ([nan |-> FALSE, neg |-> FALSE, m |-> <<28251, 27160, 21554, 187>>, e |-> -54]
        :> [nan |-> FALSE, neg |-> FALSE, m |-> <<21308, 16285, 15872, 183>>, e |-> -54]) @@
    ([nan |-> FALSE, neg |-> FALSE, m |-> <<11544, 10376, 2029, 201>>, e |-> -54]
        :> [nan |-> FALSE, neg |-> FALSE, m |-> <<10595, 19805, 30602, 195>>, e |-> -54]) @@
    ([nan |-> FALSE, neg |-> FALSE, m |-> <<21606, 31153, 26419, 236>>, e |-> -54]
        :> [nan |-> FALSE, neg |-> FALSE, m |-> <<7492, 2925, 14853, 228>>, e |-> -54]) @@
    ([nan |-> FALSE, neg |-> FALSE, m |-> <<15834, 9581, 9021, 136>>, e |-> -53]
        :> [nan |-> FALSE, neg |-> FALSE, m |-> <<13845, 12184, 30468, 129>>, e |-> -53]) @@
    ([nan |-> FALSE, neg |-> FALSE, m |-> <<28896, 27961, 27837, 160>>, e |-> -53]
        :> [nan |-> FALSE, neg |-> FALSE, m |-> <<23134, 2282, 15500, 150>>, e |-> -53]) @@
    ([nan |-> FALSE, neg |-> FALSE, m |-> <<17543, 5582, 23649, 178>>, e |-> -53]
        :> [nan |-> FALSE, neg |-> FALSE, m |-> <<5660, 9336, 18141, 164>>, e |-> -53]) @@
    ([nan |-> FALSE, neg |-> FALSE, m |-> <<19897, 2384, 11792, 194>>, e |-> -53]
        :> [nan |-> FALSE, neg |-> FALSE, m |-> <<796, 22954, 7168, 176>>, e |-> -53]) @@
    ([nan |-> FALSE, neg |-> FALSE, m |-> <<11544, 10376, 2029, 201>>, e |-> -53]
        :> [nan |-> FALSE, neg |-> FALSE, m |-> <<15308, 19710, 633, 181>>, e |-> -53]) @@
    ([nan |-> FALSE, neg |-> FALSE, m |-> <<5545, 15170, 13177, 223>>, e |-> -53]
        :> [nan |-> FALSE, neg |-> FALSE, m |-> <<20537, 17822, 3518, 196>>, e |-> -53]) @@
    ([nan |-> FALSE, neg |-> FALSE, m |-> <<26960, 25558, 8988, 241>>, e |-> -53]
        :> [nan |-> FALSE, neg |-> FALSE, m |-> <<29864, 14127, 3550, 207>>, e |-> -53]) @@
    ([nan |-> FALSE, neg |-> FALSE, m |-> <<11544, 10376, 2029, 201>>, e |-> -52]
        :> [nan |-> FALSE, neg |-> FALSE, m |-> <<0, 0, 0, 128>>, e |-> -52])

\* Math.cos at the arguments that occur for Points.
CosTable ==
    ([nan |-> FALSE, neg |-> TRUE, m |-> <<7481, 17573, 32026, 142>>, e |-> -55]
        :> [nan |-> FALSE, neg |-> FALSE, m |-> <<5242, 21089, 16666, 253>>, e |-> -53]) @@
    ([nan |-> FALSE, neg |-> TRUE, m |-> <<18189, 6383, 29932, 151>>, e |-> -53]
        :> [nan |-> FALSE, neg |-> FALSE, m |-> <<28324, 6993, 7655, 212>>, e |-> -53]) @@
    (Zero
        :> [nan |-> FALSE, neg |-> FALSE, m |-> <<0, 0, 0, 128>>, e |-> -52]) @@
    ([nan |-> FALSE, neg |-> FALSE, m |-> <<7481, 17573, 32026, 142>>, e |-> -55]
        :> [nan |-> FALSE, neg |-> FALSE, m |-> <<5242, 21089, 16666, 253>>, e |-> -53]) @@
    ([nan |-> FALSE, neg |-> FALSE, m |-> <<21606, 31153, 26419, 236>>, e |-> -53]
        :> [nan |-> FALSE, neg |-> FALSE, m |-> <<16055, 10411, 2118, 154>>, e |-> -53])

\* Math.sqrt at the arguments that occur for Points.
SqrtTable ==
    (Zero
        :> Zero) @@
    ([nan |-> FALSE, neg |-> FALSE, m |-> <<30352, 11150, 20163, 216>>, e |-> -56]
        :> [nan |-> FALSE, neg |-> FALSE, m |-> <<6834, 2513, 16828, 166>>, e |-> -54]) @@
    ([nan |-> FALSE, neg |-> FALSE, m |-> <<10109, 4906, 18084, 208>>, e |-> -55]
        :> [nan |-> FALSE, neg |-> FALSE, m |-> <<121, 23091, 2005, 231>>, e |-> -54]) @@
    ([nan |-> FALSE, neg |-> FALSE, m |-> <<12360, 15188, 4304, 171>>, e |-> -54]
        :> [nan |-> FALSE, neg |-> FALSE, m |-> <<8199, 4769, 90, 148>>, e |-> -53]) @@
    ([nan |-> FALSE, neg |-> FALSE, m |-> <<12362, 15188, 4304, 171>>, e |-> -54]
        :> [nan |-> FALSE, neg |-> FALSE, m |-> <<8200, 4769, 90, 148>>, e |-> -53]) @@
    ([nan |-> FALSE, neg |-> FALSE, m |-> <<4402, 9234, 27689, 243>>, e |-> -54]
        :> [nan |-> FALSE, neg |-> FALSE, m |-> <<27911, 23679, 21942, 176>>, e |-> -53]) @@
    ([nan |-> FALSE, neg |-> FALSE, m |-> <<24114, 15417, 1266, 254>>, e |-> -54]
        :> [nan |-> FALSE, neg |-> FALSE, m |-> <<10565, 6595, 10635, 180>>, e |-> -53]) @@
    ([nan |-> FALSE, neg |-> FALSE, m |-> <<32767, 32767, 32767, 255>>, e |-> -54]
        :> [nan |-> FALSE, neg |-> FALSE, m |-> <<15308, 19710, 633, 181>>, e |-> -53]) @@
    ([nan |-> FALSE, neg |-> FALSE, m |-> <<0, 0, 0, 128>>, e |-> -53]
        :> [nan |-> FALSE, neg |-> FALSE, m |-> <<15309, 19710, 633, 181>>, e |-> -53]) @@
    ([nan |-> FALSE, neg |-> FALSE, m |-> <<4327, 25059, 32134, 128>>, e |-> -53]
        :> [nan |-> FALSE, neg |-> FALSE, m |-> <<24048, 31288, 23312, 181>>, e |-> -53]) @@
    ([nan |-> FALSE, neg |-> FALSE, m |-> <<30567, 11766, 2539, 134>>, e |-> -53]
        :> [nan |-> FALSE, neg |-> FALSE, m |-> <<18291, 2036, 8747, 185>>, e |-> -53]) @@
    ([nan |-> FALSE, neg |-> FALSE, m |-> <<26587, 25173, 14231, 170>>, e |-> -53]
        :> [nan |-> FALSE, neg |-> FALSE, m |-> <<15827, 27047, 28861, 208>>, e |-> -53]) @@
    ([nan |-> FALSE, neg |-> FALSE, m |-> <<26588, 25173, 14231, 170>>, e |-> -53]
        :> [nan |-> FALSE, neg |-> FALSE, m |-> <<15827, 27047, 28861, 208>>, e |-> -53]) @@
    ([nan |-> FALSE, neg |-> FALSE, m |-> <<13857, 31541, 28246, 203>>, e |-> -53]
        :> [nan |-> FALSE, neg |-> FALSE, m |-> <<28018, 24251, 14693, 228>>, e |-> -53]) @@
    ([nan |-> FALSE, neg |-> FALSE, m |-> <<4398, 19086, 30247, 228>>, e |-> -53]
        :> [nan |-> FALSE, neg |-> FALSE, m |-> <<1245, 18544, 2728, 242>>, e |-> -53]) @@
    ([nan |-> FALSE, neg |-> FALSE, m |-> <<0, 0, 0, 128>>, e |-> -52]
        :> [nan |-> FALSE, neg |-> FALSE, m |-> <<0, 0, 0, 128>>, e |-> -52]) @@
    ([nan |-> FALSE, neg |-> FALSE, m |-> <<1, 0, 0, 128>>, e |-> -52]
        :> [nan |-> FALSE, neg |-> FALSE, m |-> <<0, 0, 0, 128>>, e |-> -52])

\* Math.atan2 at the arguments that occur for Points.
Atan2Table ==
    (<<Zero,
        [nan |-> FALSE, neg |-> FALSE, m |-> <<0, 0, 0, 128>>, e |-> -52]>>
        :> Zero) @@
    (<<[nan |-> FALSE, neg |-> FALSE, m |-> <<6834, 2513, 16828, 166>>, e |-> -54],
        [nan |-> FALSE, neg |-> FALSE, m |-> <<1245, 18544, 2728, 242>>, e |-> -53]>>
        :> [nan |-> FALSE, neg |-> FALSE, m |-> <<25383, 28906, 19597, 169>>, e |-> -54]) @@
    (<<[nan |-> FALSE, neg |-> FALSE, m |-> <<121, 23091, 2005, 231>>, e |-> -54],
        [nan |-> FALSE, neg |-> FALSE, m |-> <<28018, 24251, 14693, 228>>, e |-> -53]>>
        :> [nan |-> FALSE, neg |-> FALSE, m |-> <<5375, 19552, 23741, 239>>, e |-> -54]) @@
    (<<[nan |-> FALSE, neg |-> FALSE, m |-> <<8200, 4769, 90, 148>>, e |-> -53],
        [nan |-> FALSE, neg |-> FALSE, m |-> <<15827, 27047, 28861, 208>>, e |-> -53]>>
        :> [nan |-> FALSE, neg |-> FALSE, m |-> <<9503, 22007, 26514, 157>>, e |-> -53]) @@
    (<<[nan |-> FALSE, neg |-> FALSE, m |-> <<27911, 23679, 21942, 176>>, e |-> -53],
        [nan |-> FALSE, neg |-> FALSE, m |-> <<18291, 2036, 8747, 185>>, e |-> -53]>>
        :> [nan |-> FALSE, neg |-> FALSE, m |-> <<30994, 1819, 32183, 194>>, e |-> -53]) @@
    (<<[nan |-> FALSE, neg |-> FALSE, m |-> <<10565, 6595, 10635, 180>>, e |-> -53],
        [nan |-> FALSE, neg |-> FALSE, m |-> <<24048, 31288, 23312, 181>>, e |-> -53]>>
        :> [nan |-> FALSE, neg |-> FALSE, m |-> <<11744, 7783, 2662, 200>>, e |-> -53]) @@
    (<<[nan |-> FALSE, neg |-> FALSE, m |-> <<15308, 19710, 633, 181>>, e |-> -53],
        [nan |-> FALSE, neg |-> FALSE, m |-> <<15309, 19710, 633, 181>>, e |-> -53]>>
        :> [nan |-> FALSE, neg |-> FALSE, m |-> <<11544, 10376, 2029, 201>>, e |-> -53]) @@
    (<<[nan |-> FALSE, neg |-> FALSE, m |-> <<24048, 31288, 23312, 181>>, e |-> -53],
        [nan |-> FALSE, neg |-> FALSE, m |-> <<10565, 6595, 10635, 180>>, e |-> -53]>>
        :> [nan |-> FALSE, neg |-> FALSE, m |-> <<11344, 12969, 1396, 202>>, e |-> -53]) @@
    (<<[nan |-> FALSE, neg |-> FALSE, m |-> <<15827, 27047, 28861, 208>>, e |-> -53],
        [nan |-> FALSE, neg |-> FALSE, m |-> <<8199, 4769, 90, 148>>, e |-> -53]>>
        :> [nan |-> FALSE, neg |-> FALSE, m |-> <<13586, 31513, 10311, 244>>, e |-> -53]) @@
    (<<[nan |-> FALSE, neg |-> FALSE, m |-> <<0, 0, 0, 128>>, e |-> -52],
        Zero>>
        :> [nan |-> FALSE, neg |-> FALSE, m |-> <<11544, 10376, 2029, 201>>, e |-> -52])

\* Math.sin, Math.cos, Math.sqrt and Math.atan2. The square root of a
\* negative number is NaN, and so is every result for a NaN argument.
MathSin(x) == IF x.nan THEN NaN ELSE SinTable[x]

MathCos(x) == IF x.nan THEN NaN ELSE CosTable[x]

MathSqrt(x) == IF x.nan \/ (x.neg /\ x.m # << >>) THEN NaN ELSE SqrtTable[x]

MathAtan2(y, x) == IF y.nan \/ x.nan THEN NaN ELSE Atan2Table[<<y, x>>]

\* calculateDistance (lines 251-272), in meters.
calculateDistance(point1, point2) ==
    LET lat1 == point1[1]
        lon1 == point1[2]
        lat2 == point2[1]
        lon2 == point2[2]
        R == Num(6371000)
        phi1 == Over(Times(lat1, MathPI), Num(180))
        phi2 == Over(Times(lat2, MathPI), Num(180))
        dphi == Over(Times(Minus(lat2, lat1), MathPI), Num(180))
        dlambda == Over(Times(Minus(lon2, lon1), MathPI), Num(180))
        a == Plus(Times(MathSin(Over(dphi, Num(2))), MathSin(Over(dphi, Num(2)))),
                  Times(Times(Times(MathCos(phi1), MathCos(phi2)),
                              MathSin(Over(dlambda, Num(2)))),
                        MathSin(Over(dlambda, Num(2)))))
        c == Times(Num(2), MathAtan2(MathSqrt(a), MathSqrt(Minus(Num(1), a))))
    IN  Times(R, c)

\* The distances between the points.
distances == [p \in Points, q \in Points |-> calculateDistance(p, q)]

\* The for loop of calculatePathDistance (lines 280-282) from index i on.
RECURSIVE forLoop(_, _, _)
forLoop(points, i, totalDistance) ==
    IF i > Len(points) THEN totalDistance
    ELSE forLoop(points, i + 1, Plus(totalDistance, distances[points[i - 1], points[i]]))

\* calculatePathDistance with a loop that starts one pair late.
calculatePathDistance_SkipsFirstPair(points) ==
    IF Len(points) < 2 THEN Zero ELSE forLoop(points, 3, Zero)

\* calculatePathDistance (lines 275-285).
calculatePathDistance(points) ==
    IF Len(points) < 2 THEN Zero ELSE forLoop(points, 2, Zero)

\* ---------------------------------------------------------------- the cache
\* isCacheValid with the comparison "<=": an entry of exactly CACHE_EXPIRY
\* milliseconds still counts as valid.
isCacheValid_Inclusive(cch, key) ==
    IF key \notin DOMAIN cch
    THEN FALSE
    ELSE now - cch[key].timestamp <= CACHE_EXPIRY

\* isCacheValid (lines 88-93), on the cache value cch at time now.
isCacheValid(cch, key) ==
    IF key \notin DOMAIN cch
    THEN FALSE
    ELSE now - cch[key].timestamp < CACHE_EXPIRY

\* A cache write that keeps an entry that is already there (first write wins).
cachePut_KeepsExisting(cch, key, data) ==
    IF key \in DOMAIN cch
    THEN cch
    ELSE [k \in (DOMAIN cch) \cup {key} |->
            IF k = key THEN [data |-> data, timestamp |-> now] ELSE cch[k]]

\* cache[cacheKey] = { data, timestamp: Date.now() } (lines 112-115, 216-219).
cachePut(cch, key, data) ==
    [k \in (DOMAIN cch) \cup {key} |->
        IF k = key THEN [data |-> data, timestamp |-> now] ELSE cch[k]]

\* ------------------------------------------------------- network responses
\* The code never inspects a response body (but to parse the harbour text),
\* so every network call gets a body of its own: the n-th call of the session
\* is answered, when it succeeds, with the n-th body.

\* response.data of the JSON endpoints: a list of features.
JsonResponse(n) == [i \in 1..n |-> i]

\* ------------------------------------------------- the harbour text format
\* A text is the sequence of its characters.
Digits == {"0", "1", "2", "3", "4", "5", "6", "7", "8", "9"}

DigitChars == <<"0", "1", "2", "3", "4", "5", "6", "7", "8", "9">>

\* \s of the regular expression.
Whitespace == {" ", "\n"}

\* [\d.-] of the regular expression.
NumberChars == Digits \cup {".", "-"}

\* The literal the regular expression of line 159 starts with.
MarkerLiteral ==
    <<"p", "u", "t", "H", "a", "r", "b", "o", "u", "r",
      "M", "a", "r", "k", "e", "r", "(">>

DigitValue(ch) == CHOOSE d \in 0..9 : DigitChars[d + 1] = ch

\* parseInt of a string of digits (line 172).
RECURSIVE parseInt(_)
parseInt(str) ==
    IF str = << >>
    THEN 0
    ELSE 10 * parseInt(SubSeq(str, 1, Len(str) - 1)) + DigitValue(str[Len(str)])

\* The decimal digits of n, as String(n) writes them.
RECURSIVE ToDigits(_)
ToDigits(n) ==
    IF n < 10
    THEN <<DigitChars[n + 1]>>
    ELSE ToDigits(n \div 10) \o <<DigitChars[(n % 10) + 1]>>

\* The first position from i on whose character is not in class: the end of
\* a greedy class* of the regular expression.
RECURSIVE SkipClass(_, _, _)
SkipClass(str, i, class) ==
    IF i <= Len(str) /\ str[i] \in class
    THEN SkipClass(str, i + 1, class)
    ELSE i

\* The end of a greedy [^']*.
RECURSIVE SkipToQuote(_, _)
SkipToQuote(str, i) ==
    IF i <= Len(str) /\ str[i] # "'"
    THEN SkipToQuote(str, i + 1)
    ELSE i

CharAt(str, i, ch) == i <= Len(str) /\ str[i] = ch

LiteralAt(str, i, lit) ==
    /\ i + Len(lit) - 1 <= Len(str)
    /\ \A k \in 1..Len(lit) : str[i + k - 1] = lit[k]

\* parseFloat of a string of [\d.-] characters (line 169): the longest
\* prefix of the form -?digits(.digits)? is read, in thousandths; a string
\* without such a prefix gives NaN.
parseFloat(str) ==
    LET neg == CharAt(str, 1, "-")
        i0 == IF neg THEN 2 ELSE 1
        i1 == SkipClass(str, i0, Digits)
        hasFrac == CharAt(str, i1, ".")
        i2 == IF hasFrac THEN SkipClass(str, i1 + 1, Digits) ELSE i1
        whole == parseInt(SubSeq(str, i0, i1 - 1))
        frac == IF hasFrac THEN SubSeq(str, i1 + 1, i2 - 1) ELSE << >>
        frac3 == SubSeq(frac \o <<"0", "0", "0">>, 1, 3)
        milli == 1000 * whole + parseInt(frac3)
    IN  IF i1 = i0 /\ i2 <= i1 + 1
        THEN [nan |-> TRUE, milli |-> 0]
        ELSE [nan |-> FALSE, milli |-> IF neg THEN 0 - milli ELSE milli]

NoMatch == [ok |-> FALSE]

\* One attempt of the regular expression of line 159 at position i of the
\* text:
\*   putHarbourMarker\((\d+),\s*([\d.-]+),\s*([\d.-]+),\s*'([^']*)',\s*'([^']*)',\s*(\d+)\);
\* Every quantified class is followed by a character outside the class, so
\* the greedy match is the only one.
regexMatchAt(str, i) ==
    IF ~LiteralAt(str, i, MarkerLiteral)
    THEN NoMatch
    ELSE LET a1 == i + Len(MarkerLiteral)
             a2 == SkipClass(str, a1, Digits)                 \* (\d+)
             b1 == SkipClass(str, a2 + 1, Whitespace)
             b2 == SkipClass(str, b1, NumberChars)            \* ([\d.-]+)
             c1 == SkipClass(str, b2 + 1, Whitespace)
             c2 == SkipClass(str, c1, NumberChars)            \* ([\d.-]+)
             d1 == SkipClass(str, c2 + 1, Whitespace)
             d2 == SkipToQuote(str, d1 + 1)                   \* '([^']*)'
             e1 == SkipClass(str, d2 + 2, Whitespace)
             e2 == SkipToQuote(str, e1 + 1)                   \* '([^']*)'
             f1 == SkipClass(str, e2 + 2, Whitespace)
             f2 == SkipClass(str, f1, Digits)                 \* (\d+)
         IN  IF /\ a2 > a1 /\ CharAt(str, a2, ",")
                /\ b2 > b1 /\ CharAt(str, b2, ",")
                /\ c2 > c1 /\ CharAt(str, c2, ",")
                /\ CharAt(str, d1, "'") /\ CharAt(str, d2, "'")
                /\ CharAt(str, d2 + 1, ",")
                /\ CharAt(str, e1, "'") /\ CharAt(str, e2, "'")
                /\ CharAt(str, e2 + 1, ",")
                /\ f2 > f1 /\ CharAt(str, f2, ")") /\ CharAt(str, f2 + 1, ";")
             THEN [ok |-> TRUE, lastIndex |-> f2 + 2,
                   id |-> SubSeq(str, a1, a2 - 1),
                   lon |-> SubSeq(str, b1, b2 - 1),
                   lat |-> SubSeq(str, c1, c2 - 1),
                   name |-> SubSeq(str, d1 + 1, d2 - 1),
                   country |-> SubSeq(str, e1 + 1, e2 - 1),
                   size |-> SubSeq(str, f1, f2 - 1)]
             ELSE NoMatch

\* The record pushed for one match (lines 163-175).
HarborOf(match) ==
    [id |-> match.id, type |-> "harbor", name |-> match.name,
     coordinates |-> <<parseFloat(match.lon), parseFloat(match.lat)>>,
     metadata |-> [country |-> match.country, size |-> parseInt(match.size)]]

\* The loop of lines 161-176: regex.exec with the g flag finds the first
\* match that starts at lastIndex or later and moves lastIndex behind it;
\* the loop ends when there is none.
RECURSIVE execLoop(_, _, _)
execLoop(str, lastIndex, harbors) ==
    LET starts == {i \in lastIndex..Len(str) : regexMatchAt(str, i).ok}
    IN  IF starts = {}
        THEN harbors
        ELSE LET index == CHOOSE i \in starts : \A j \in starts : i <= j
                 match == regexMatchAt(str, index)
             IN  execLoop(str, match.lastIndex, Append(harbors, HarborOf(match)))

\* parseHarborData leaving the loop after the first match.
parseHarborData_FirstMatchOnly(responseText) ==
    LET all == execLoop(responseText, 1, << >>)
    IN  SubSeq(all, 1, IF Len(all) > 0 THEN 1 ELSE 0)

\* parseHarborData (lines 155-179).
parseHarborData(responseText) == execLoop(responseText, 1, << >>)

\* The calls a harbour text is made of. A call is written from its data in
\* one of these shapes:
\*   spaced       putHarbourMarker(7, 2.5, 53.1, 'Test', 'NL', 3);
\*   compact      no whitespace after the commas
\*   noSemicolon  spaced, without the final ";"
\*   openQuote    the closing quote of the name is missing
\*   wordId       the id is not a number
\*   truncated    the text of the call stops inside the country
\* A response body may also hold a call whose longitude is not a number:
\*   dashLon      spaced, with "-" as the longitude
MarkerShapes ==
    {"spaced", "compact", "noSemicolon", "openQuote", "wordId", "truncated"}

WellFormedShapes == {"spaced", "compact"}

\* The data of the k-th call of a text.
MarkerData(k) ==
    [id |-> 7 * k,
     lon |-> IF k % 2 = 1 THEN <<"2", ".", "5">> ELSE <<"-", "0", ".", "7", "5">>,
     lat |-> <<"5", "3", ".", "1">>,
     name |-> IF k % 2 = 1 THEN <<"T", "e", "s", "t">> ELSE <<"K", "i", "e", "l">>,
     country |-> IF k % 2 = 1 THEN <<"N", "L">> ELSE <<"D", "E">>,
     size |-> k]

\* The text of one call, followed by a line break.
MarkerText(d, shape) ==
    LET sep == IF shape = "compact" THEN <<",">> ELSE <<",", " ">>
        idText == IF shape = "wordId" THEN <<"i", "d">> ELSE ToDigits(d.id)
        nameText == IF shape = "openQuote"
                    THEN <<"'">> \o d.name
                    ELSE <<"'">> \o d.name \o <<"'">>
        lonText == IF shape = "dashLon" THEN <<"-">> ELSE d.lon
        head == MarkerLiteral \o idText \o sep \o lonText \o sep \o d.lat \o sep
                    \o nameText \o sep \o <<"'">> \o d.country
        rest == <<"'">> \o sep \o ToDigits(d.size) \o <<")">>
    IN  CASE shape = "truncated"   -> head \o <<"\n">>
          [] shape = "noSemicolon" -> head \o rest \o <<"\n">>
          [] OTHER                 -> head \o rest \o <<";", "\n">>

\* The text made of calls of the given shapes, in order.
RECURSIVE HarborText(_)
HarborText(shapes) ==
    IF shapes = << >>
    THEN << >>
    ELSE HarborText(SubSeq(shapes, 1, Len(shapes) - 1))
            \o MarkerText(MarkerData(Len(shapes)), shapes[Len(shapes)])

\* response.data of the harbour endpoint: the n-th response holds n
\* well-formed calls followed by a malformed one, which in every third
\* response is a call with a longitude that is not a number.
HarborResponse(n) ==
    HarborText([i \in 1..(n + 1) |->
                    IF i <= n THEN "spaced"
                    ELSE IF n % 3 = 0 THEN "dashLon" ELSE "wordId"])

\* The response bodies of the harbour endpoint and what parseHarborData
\* makes of each (line 213).
HarborResponses == {HarborResponse(n) : n \in 1..MaxCalls \cup 1..MaxLiveCalls}

parsedResponse == [data \in HarborResponses |-> parseHarborData(data)]

\* ----------------------------------------------------------- fetch records
NoSettle == [task |-> 0, time |-> 0]

\* The record of one invocation of a fetch operation: what was asked, what
\* the lookup saw, what the network did and what the caller got.
NewCall(op, key, cch) ==
    [op |-> op, key |-> key,
     state |-> "new",            \* new, queued, inflight, resolved, rejected
     viaQueue |-> FALSE,         \* the network call is a task of the queue
     hit |-> FALSE,              \* served from the cache
     age |-> IF key \in DOMAIN cch THEN now - cch[key].timestamp ELSE -1,
     enqPhase |-> "none",        \* queue phase seen by queueRequest
     pred |-> 0,                 \* the task of the queue started before this one
     sinceSettle |-> -1,         \* at the start: time since pred settled
     netOutcome |-> "none",      \* none, ok, fail
     netData |-> << >>,          \* response.data of the network call
     value |-> << >>,            \* value the caller's promise resolved with
     error |-> ""]               \* message the caller's promise rejected with

Settled(r) == r.state \in {"resolved", "rejected"}

\* The caller of a fetch operation consumes the outcome when its promise
\* settles: the details of a settled call are kept for one step, after which
\* only the fact that it was resolved or rejected remains. What a task
\* observed when it was started (the time since its predecessor settled) is
\* likewise kept for that step only.
Consumed(r) ==
    IF Settled(r)
    THEN [NewCall("", << >>, << >>) EXCEPT !.state = r.state]
    ELSE [r EXCEPT !.pred = 0, !.sinceSettle = -1]

Retire(S) == [S EXCEPT !.calls = [c \in DOMAIN @ |-> Consumed(@[c])]]

\* ------------------------------------------------- the rate-limited queue
\* The phase of the queue processor as queueRequest finds it.
QueuePhase(S) ==
    IF S.loops = {} THEN "idle"
    ELSE IF \E l \in S.loops : l.pc = "task" THEN "busy"
    ELSE "delay"

\* History written when a task is started: the task started before it and
\* the time since that task settled (-1 when it has not settled).
StartStamp(S, r) ==
    IF S.startOrder = << >>
    THEN r
    ELSE LET p == S.startOrder[Len(S.startOrder)]
         IN  [r EXCEPT !.pred = p,
                       !.sinceSettle = IF S.lastSettle.task = p
                                       THEN now - S.lastSettle.time ELSE -1]

\* The while loop taking the newest task (pop) instead of the oldest (shift).
whileLoop_TakesNewest(S) ==
    IF Len(S.requestQueue) > 0
    THEN LET request == S.requestQueue[Len(S.requestQueue)]
         IN  [S EXCEPT
                !.requestQueue = SubSeq(@, 1, Len(@) - 1),
                !.calls[request] = [StartStamp(S, @) EXCEPT !.state = "inflight"],
                !.startOrder = Append(@, request),
                !.lastSettle = NoSettle,
                !.loops = @ \cup {[task |-> request, pc |-> "task", deadline |-> 0]}]
    ELSE [S EXCEPT !.processingQueue = FALSE]

\* The while loop leaving without clearing the flag (line 65 missing).
whileLoop_KeepsFlag(S) ==
    IF Len(S.requestQueue) > 0
    THEN LET request == Head(S.requestQueue)
         IN  [S EXCEPT
                !.requestQueue = Tail(@),
                !.calls[request] = [StartStamp(S, @) EXCEPT !.state = "inflight"],
                !.startOrder = Append(@, request),
                !.lastSettle = NoSettle,
                !.loops = @ \cup {[task |-> request, pc |-> "task", deadline |-> 0]}]
    ELSE S

\* The while loop clearing the flag as soon as it has taken the last task,
\* before that task has run.
whileLoop_ClearsFlagEarly(S) ==
    IF Len(S.requestQueue) > 0
    THEN LET request == Head(S.requestQueue)
         IN  [S EXCEPT
                !.requestQueue = Tail(@),
                !.processingQueue = Len(S.requestQueue) > 1,
                !.calls[request] = [StartStamp(S, @) EXCEPT !.state = "inflight"],
                !.startOrder = Append(@, request),
                !.lastSettle = NoSettle,
                !.loops = @ \cup {[task |-> request, pc |-> "task", deadline |-> 0]}]
    ELSE [S EXCEPT !.processingQueue = FALSE]

\* processQueue, lines 51-65: the head of the while loop, evaluated on entry
\* and again when the delay of line 61 is over. It either shifts the next
\* task and calls it (the loop then waits at line 55) or leaves the loop and
\* clears the flag.
whileLoop(S) ==
    IF Len(S.requestQueue) > 0
    THEN LET request == Head(S.requestQueue)
         IN  [S EXCEPT
                !.requestQueue = Tail(@),
                !.calls[request] = [StartStamp(S, @) EXCEPT !.state = "inflight"],
                !.startOrder = Append(@, request),
                !.lastSettle = NoSettle,
                !.loops = @ \cup {[task |-> request, pc |-> "task", deadline |-> 0]}]
    ELSE [S EXCEPT !.processingQueue = FALSE]

\* processQueue entering the loop without setting the flag (line 49 missing).
processQueue_FlagNotSet(S) ==
    IF S.processingQueue \/ Len(S.requestQueue) = 0
    THEN S
    ELSE whileLoop(S)

\* processQueue, lines 46-50: the guard and the setting of the flag.
processQueue(S) ==
    IF S.processingQueue \/ Len(S.requestQueue) = 0
    THEN S
    ELSE whileLoop([S EXCEPT !.processingQueue = TRUE])

\* The delay awaited inside the try block: a task that throws skips it, and
\* the loop goes round at once.
awaitDelay_SkippedOnFailure(S, request, ok) ==
    [S EXCEPT
        !.lastSettle = [task |-> request, time |-> now],
        !.loops =
            {IF l.task = request /\ l.pc = "task"
                THEN [l EXCEPT !.pc = "delay",
                               !.deadline = IF ok THEN now + (1000 \div API_RATE_LIMIT)
                                                  ELSE now]
                ELSE l : l \in @}]

\* The error of a failed task escaping processQueue (no catch): the loop
\* ends there, with the flag still set.
awaitDelay_FailureEndsLoop(S, request, ok) ==
    [S EXCEPT
        !.lastSettle = [task |-> request, time |-> now],
        !.loops =
            {IF l.task = request /\ l.pc = "task"
                THEN [l EXCEPT !.pc = "delay",
                               !.deadline = now + (1000 \div API_RATE_LIMIT)]
                ELSE l : l \in {m \in @ : ok \/ m.task # request}}]

\* processQueue, lines 54-61: request() has settled, with success (ok) or by
\* throwing into the catch of line 56; the loop arms the rate-limit timer.
awaitDelay(S, request, ok) ==
    [S EXCEPT
        !.lastSettle = [task |-> request, time |-> now],
        !.loops =
            {IF l.task = request /\ l.pc = "task"
                THEN [l EXCEPT !.pc = "delay",
                               !.deadline = now + (1000 \div API_RATE_LIMIT)]
                ELSE l : l \in @}]

\* queueRequest (lines 69-85) for the task of call c.
queueRequest(S, c) ==
    LET S1 == [S EXCEPT
                 !.requestQueue = Append(@, c),
                 !.enqueueOrder = Append(@, c),
                 !.calls[c] = [@ EXCEPT !.state = "queued", !.viaQueue = TRUE,
                                        !.enqPhase = QueuePhase(S)]]
    IN  IF ~S1.processingQueue THEN processQueue(S1) ELSE S1

\* ------------------------------------------------------ the fetch operations
\* fetchWithCache refreshing the timestamp of the entry it serves.
fetchWithCache_HitRefreshes(S, op, url, vp) ==
    LET cacheKey == <<url, vp>>
        c == Len(S.calls) + 1
        call == NewCall(op, cacheKey, S.cache)
    IN  IF isCacheValid(S.cache, cacheKey)
        THEN [S EXCEPT
                !.cache[cacheKey].timestamp = now,
                !.calls = Append(@,
                    [call EXCEPT !.state = "resolved", !.hit = TRUE,
                                 !.value = S.cache[cacheKey].data])]
        ELSE queueRequest([S EXCEPT !.calls = Append(@, call)], c)

\* fetchWithCache (lines 96-109), called for operation op: the key, the
\* lookup, and on a miss the submission of the network call to the queue.
fetchWithCache(S, op, url, vp) ==
    LET cacheKey == <<url, vp>>
        c == Len(S.calls) + 1
        call == NewCall(op, cacheKey, S.cache)
    IN  IF isCacheValid(S.cache, cacheKey)
        THEN [S EXCEPT !.calls = Append(@,
                [call EXCEPT !.state = "resolved", !.hit = TRUE,
                             !.value = S.cache[cacheKey].data])]
        ELSE queueRequest([S EXCEPT !.calls = Append(@, call)], c)

\* fetchSeaMarks (lines 137-152), up to the await of line 147.
fetchSeaMarks(S, vp) == fetchWithCache(S, "seaMarks", "/seamark", vp)

\* fetchBathymetricContours (lines 235-249), up to the await of line 244.
fetchBathymetricContours(S, vp) == fetchWithCache(S, "contours", "/contours", vp)

\* fetchHarborFacilities (lines 182-210), up to the await of line 210: the
\* network call is made directly with axios.get.
fetchHarborFacilities(S, vp) ==
    LET cacheKey == <<"harbors-", vp>>
        call == NewCall("harbors", cacheKey, S.cache)
    IN  IF isCacheValid(S.cache, cacheKey)
        THEN [S EXCEPT !.calls = Append(@,
                [call EXCEPT !.state = "resolved", !.hit = TRUE,
                             !.value = S.cache[cacheKey].data])]
        ELSE [S EXCEPT !.calls = Append(@, [call EXCEPT !.state = "inflight"])]

\* The message of the Error each operation throws from its catch block
\* (lines 150, 225, 247).
ErrorMessage(op) ==
    CASE op = "seaMarks" -> "Failed to fetch sea marks data"
      [] op = "harbors"  -> "Failed to fetch harbor facilities data"
      [] op = "contours" -> "Failed to fetch bathymetric contours data"

\* The cache written in a finally block: a failed call stores an empty result.
fetchWithCacheSettled_CachesFailure(S, c, ok, data) ==
    IF ok
    THEN [S EXCEPT
            !.cache = cachePut(@, S.calls[c].key, data),
            !.calls[c] = [@ EXCEPT !.state = "resolved", !.value = data,
                                   !.netOutcome = "ok", !.netData = data]]
    ELSE [S EXCEPT
            !.cache = cachePut(@, S.calls[c].key, << >>),
            !.calls[c] = [@ EXCEPT !.state = "rejected",
                                   !.error = ErrorMessage(S.calls[c].op),
                                   !.netOutcome = "fail"]]

\* fetchWithCache whose cache write throws the other entries away.
fetchWithCacheSettled_DropsOthers(S, c, ok, data) ==
    IF ok
    THEN [S EXCEPT
            !.cache = cachePut(<< >>, S.calls[c].key, data),
            !.calls[c] = [@ EXCEPT !.state = "resolved", !.value = data,
                                   !.netOutcome = "ok", !.netData = data]]
    ELSE [S EXCEPT
            !.calls[c] = [@ EXCEPT !.state = "rejected",
                                   !.error = ErrorMessage(S.calls[c].op),
                                   !.netOutcome = "fail"]]

\* fetchWithCache after the await of line 106 (lines 111-117) and the
\* try/catch of its caller (lines 146-151, 243-248): on success the result
\* is cached and returned, on failure the caller's Error is thrown.
fetchWithCacheSettled(S, c, ok, data) ==
    IF ok
    THEN [S EXCEPT
            !.cache = cachePut(@, S.calls[c].key, data),
            !.calls[c] = [@ EXCEPT !.state = "resolved", !.value = data,
                                   !.netOutcome = "ok", !.netData = data]]
    ELSE [S EXCEPT
            !.calls[c] = [@ EXCEPT !.state = "rejected",
                                   !.error = ErrorMessage(S.calls[c].op),
                                   !.netOutcome = "fail"]]

\* fetchHarborFacilities after the await of line 210 (lines 212-226).
fetchHarborFacilitiesSettled(S, c, ok, data) ==
    IF ok
    THEN LET harbors == parsedResponse[data]
         IN  [S EXCEPT
                !.cache = cachePut(@, S.calls[c].key, harbors),
                !.calls[c] = [@ EXCEPT !.state = "resolved", !.value = harbors,
                                       !.netOutcome = "ok", !.netData = data]]
    ELSE [S EXCEPT
            !.calls[c] = [@ EXCEPT !.state = "rejected",
                                   !.error = ErrorMessage("harbors"),
                                   !.netOutcome = "fail"]]

\* The network call of call c settles: the continuation of the operation
\* runs and, for a task of the queue, the wrapper of lines 71-78 settles the
\* promise of queueRequest and processQueue resumes after line 55.
networkSettled(S, c, ok) ==
    IF S.calls[c].op = "harbors"
    THEN fetchHarborFacilitiesSettled(S, c, ok, HarborResponse(c))
    ELSE awaitDelay(fetchWithCacheSettled(S, c, ok, JsonResponse(c)), c, ok)

\* ---------------------------------------------------------------- the store
\* src/src/stores/mapStore.ts. null is the empty tuple and a value that may
\* be null is the tuple of that value; coordinates are in thousandths of a
\* degree.
Null == << >>

Some(v) == <<v>>

LayerNames ==
    {"seaMarks", "harborFacilities", "coordinateGrid", "depthSoundings",
     "bathymetricContours", "windy"}

defaultCenter == <<51505, -90>>

defaultZoom == 5

createDefaultLayerState ==
    [visible |-> FALSE, loading |-> FALSE, error |-> Null, lastUpdated |-> Null]

\* The defaultWindyOptions object as the store's setup writes it (lines 19-23).
InitialWindyOptions == [overlay |-> "wind", level |-> "surface", timestamp |-> Null]

\* { ...a, ...b }: the properties of a, overridden and extended by those of b.
Spread(a, b) ==
    [k \in (DOMAIN a) \cup (DOMAIN b) |-> IF k \in DOMAIN b THEN b[k] ELSE a[k]]

\* The store after its setup function has run (lines 7-47), with the storage
\* item and the storage's health as the environment provides them.
NewStore(item, health) ==
    [mapSettings |-> [center |-> defaultCenter, zoom |-> defaultZoom,
                      layers |-> [l \in LayerNames |-> createDefaultLayerState]],
     windyOptions |-> InitialWindyOptions,
     defaultWindyOptions |-> InitialWindyOptions,
     windyIsDefault |-> TRUE,
     userLocation |-> Null,
     storage |-> item,
     storageHealth |-> health,
     uncaught |-> FALSE,
     measurementPaths |-> << >>,
     activeMeasurementId |-> Null]

\* The store and its storage, as one value.
Store ==
    [mapSettings |-> mapSettings, windyOptions |-> windyOptions,
     defaultWindyOptions |-> defaultWindyOptions, windyIsDefault |-> windyIsDefault,
     userLocation |-> userLocation, storage |-> storage,
     storageHealth |-> storageHealth, uncaught |-> uncaught,
     measurementPaths |-> measurementPaths,
     activeMeasurementId |-> activeMeasurementId]

CommitStore(M) ==
    /\ mapSettings' = M.mapSettings
    /\ windyOptions' = M.windyOptions
    /\ defaultWindyOptions' = M.defaultWindyOptions
    /\ windyIsDefault' = M.windyIsDefault
    /\ userLocation' = M.userLocation
    /\ storage' = M.storage
    /\ storageHealth' = M.storageHealth
    /\ uncaught' = M.uncaught
    /\ measurementPaths' = M.measurementPaths
    /\ activeMeasurementId' = M.activeMeasurementId

\* The storage item: absent, a text that is not JSON, the JSON text "null",
\* or the JSON text of an object.
NoItem == [kind |-> "absent", value |-> << >>]

InvalidItem == [kind |-> "invalid", value |-> << >>]

NullItem == [kind |-> "null", value |-> << >>]

\* JSON.stringify of an object of JSON values (line 85).
JSONstringify(object) == [kind |-> "object", value |-> object]

\* An item written by the version of the store that had no Windy layer.
OldVersionItem ==
    JSONstringify(
        [center |-> <<48000, 11000>>, zoom |-> 7,
         layers |-> [l \in LayerNames \ {"windy"} |->
                        [createDefaultLayerState EXCEPT
                            !.visible = (l = "seaMarks")]]])

\* An item whose layers have a name the store does not know and whose Windy
\* options are incomplete.
ExtraLayerItem ==
    JSONstringify(
        [center |-> defaultCenter, zoom |-> defaultZoom,
         layers |-> [l \in LayerNames \cup {"tides"} |->
                        [createDefaultLayerState EXCEPT !.visible = (l = "tides")]],
         windyOptions |-> [overlay |-> "rain"]])

StoredItems == {NoItem, InvalidItem, NullItem, OldVersionItem, ExtraLayerItem}

\* An item whose only layer has nothing but the visible flag.
PartialLayerItem ==
    JSONstringify(
        [center |-> <<48000, 11000>>, zoom |-> 7,
         layers |-> [l \in {"seaMarks"} |-> [visible |-> TRUE]]])

\* The items of the sessions in which the layer states are set.
LayerItems == {NoItem, OldVersionItem, PartialLayerItem}

StorageHealths == {"ok", "readFails", "writeFails"}

\* saveSettings with no try/catch: the exception of setItem leaves the
\* operation.
saveSettings_NoCatch(M) ==
    IF M.storageHealth = "writeFails"
    THEN [M EXCEPT !.uncaught = TRUE]
    ELSE [M EXCEPT !.storage =
            JSONstringify([center |-> M.mapSettings.center,
                           zoom |-> M.mapSettings.zoom,
                           layers |-> M.mapSettings.layers,
                           windyOptions |-> M.windyOptions])]

\* saveSettings that leaves the zoom out of the item.
saveSettings_WithoutZoom(M) ==
    IF M.storageHealth = "writeFails"
    THEN M
    ELSE [M EXCEPT !.storage =
            JSONstringify([center |-> M.mapSettings.center,
                           layers |-> M.mapSettings.layers,
                           windyOptions |-> M.windyOptions])]

\* saveSettings (lines 83-94): an exception of setItem is caught and logged.
saveSettings(M) ==
    IF M.storageHealth = "writeFails"
    THEN M
    ELSE [M EXCEPT !.storage =
            JSONstringify([center |-> M.mapSettings.center,
                           zoom |-> M.mapSettings.zoom,
                           layers |-> M.mapSettings.layers,
                           windyOptions |-> M.windyOptions])]

\* parsed.windyOptions.<field> || <default> (lines 70-71).
OrDefault(object, field, default) ==
    IF field \in DOMAIN object /\ object[field] # "" THEN object[field] ELSE default

\* loadSettings (lines 50-80). getItem may throw; an absent item is skipped
\* (line 53); JSON.parse throws on a text that is not JSON; reading
\* parsed.layers throws when parsed is null; every exception is caught
\* before anything is assigned.
loadSettings(M) ==
    IF \/ M.storageHealth = "readFails"
       \/ M.storage.kind \in {"absent", "invalid", "null"}
    THEN M
    ELSE LET parsed == M.storage.value
             parsedLayers == IF "layers" \in DOMAIN parsed
                             THEN parsed.layers ELSE << >>
             settings == Spread(Spread(M.mapSettings, parsed),
                                [layers |-> Spread(M.mapSettings.layers,
                                                   parsedLayers)])
         IN  IF "windyOptions" \in DOMAIN parsed
             THEN [M EXCEPT
                     !.mapSettings = settings,
                     !.windyOptions =
                        [overlay |-> OrDefault(parsed.windyOptions, "overlay",
                                               M.defaultWindyOptions.overlay),
                         level |-> OrDefault(parsed.windyOptions, "level",
                                             M.defaultWindyOptions.level),
                         timestamp |->
                            IF "timestamp" \in DOMAIN parsed.windyOptions
                            THEN parsed.windyOptions.timestamp
                            ELSE M.defaultWindyOptions.timestamp],
                     !.windyIsDefault = FALSE]
             ELSE [M EXCEPT !.mapSettings = settings]

\* setUserLocation (lines 97-101).
setUserLocation(M, location) ==
    [M EXCEPT !.userLocation = Some(location), !.mapSettings.center = location]

\* updateMapView (lines 104-108).
updateMapView(M, center, zoom) ==
    saveSettings([M EXCEPT !.mapSettings.center = center,
                           !.mapSettings.zoom = zoom])

\* toggleLayer that does not stamp lastUpdated.
toggleLayer_NoStamp(M, layerName) ==
    IF layerName \in DOMAIN M.mapSettings.layers
    THEN saveSettings(
            [M EXCEPT !.mapSettings.layers[layerName].visible = ~@])
    ELSE M

\* toggleLayer (lines 111-125).
toggleLayer(M, layerName) ==
    IF layerName \in DOMAIN M.mapSettings.layers
    THEN saveSettings(
            [M EXCEPT !.mapSettings.layers[layerName].visible = ~@,
                      !.mapSettings.layers[layerName].lastUpdated = Some(now)])
    ELSE M

\* setLayerLoading that also clears the error of the layer.
setLayerLoading_ClearsError(M, layerName, loading) ==
    IF layerName \in DOMAIN M.mapSettings.layers
    THEN [M EXCEPT !.mapSettings.layers[layerName] =
                        Spread(@, [loading |-> loading, error |-> Null])]
    ELSE M

\* setLayerLoading (lines 128-132).
setLayerLoading(M, layerName, loading) ==
    IF layerName \in DOMAIN M.mapSettings.layers
    THEN [M EXCEPT !.mapSettings.layers[layerName] =
                        Spread(@, [loading |-> loading])]
    ELSE M

\* setLayerError (lines 135-139).
setLayerError(M, layerName, error) ==
    IF layerName \in DOMAIN M.mapSettings.layers
    THEN [M EXCEPT !.mapSettings.layers[layerName] =
                        Spread(@, [error |-> error])]
    ELSE M

\* updateLayerTimestamp (lines 142-146).
updateLayerTimestamp(M, layerName) ==
    IF layerName \in DOMAIN M.mapSettings.layers
    THEN [M EXCEPT !.mapSettings.layers[layerName] =
                        Spread(@, [lastUpdated |-> Some(now)])]
    ELSE M

\* windyOptions.value.<field> = value: windyOptions was created as
\* ref(defaultWindyOptions) (line 26), so until windyOptions.value is
\* replaced the assignment goes through to the defaultWindyOptions object.
setWindyOption(M, field, value) ==
    [M EXCEPT !.windyOptions[field] = value,
              !.defaultWindyOptions[field] =
                    IF M.windyIsDefault THEN value ELSE @]

\* updateWindyOverlay (lines 178-182).
updateWindyOverlay(M, overlay) ==
    saveSettings(updateLayerTimestamp(setWindyOption(M, "overlay", overlay), "windy"))

\* updateWindyLevel (lines 185-189).
updateWindyLevel(M, level) ==
    saveSettings(updateLayerTimestamp(setWindyOption(M, "level", level), "windy"))

\* updateWindyTimestamp (lines 192-196).
updateWindyTimestamp(M, timestamp) ==
    saveSettings(updateLayerTimestamp(setWindyOption(M, "timestamp", timestamp),
                                      "windy"))

\* resetWindyOptions (lines 199-203): windyOptions.value becomes a copy of
\* the defaultWindyOptions object as it is now.
resetWindyOptions(M) ==
    saveSettings(updateLayerTimestamp(
        [M EXCEPT !.windyOptions = M.defaultWindyOptions,
                  !.windyIsDefault = FALSE],
        "windy"))

\* addMeasurementPath (lines 149-152).
addMeasurementPath(M, path) ==
    [M EXCEPT !.measurementPaths = Append(@, path),
              !.activeMeasurementId = Some(path.id)]

\* findIndex: the first index whose path has the id, -1 if there is none.
findIndex(paths, id) ==
    IF \E i \in 1..Len(paths) : paths[i].id = id
    THEN CHOOSE i \in 1..Len(paths) :
            /\ paths[i].id = id
            /\ \A j \in 1..(i - 1) : paths[j].id # id
    ELSE -1

\* splice(index, 1).
splice(paths, index) ==
    SubSeq(paths, 1, index - 1) \o SubSeq(paths, index + 1, Len(paths))

\* removeMeasurementPath that always clears the active id.
removeMeasurementPath_AlwaysClears(M, id) ==
    LET index == findIndex(M.measurementPaths, id)
    IN  [M EXCEPT !.measurementPaths = IF index # -1 THEN splice(@, index) ELSE @,
                  !.activeMeasurementId = Null]

\* removeMeasurementPath that leaves the active id as it is.
removeMeasurementPath_KeepsActive(M, id) ==
    LET index == findIndex(M.measurementPaths, id)
    IN  [M EXCEPT !.measurementPaths = IF index # -1 THEN splice(@, index) ELSE @]

\* removeMeasurementPath (lines 155-163).
removeMeasurementPath(M, id) ==
    LET index == findIndex(M.measurementPaths, id)
    IN  [M EXCEPT !.measurementPaths = IF index # -1 THEN splice(@, index) ELSE @,
                  !.activeMeasurementId = IF @ = Some(id) THEN Null ELSE @]

\* clearMeasurements (lines 166-169).
clearMeasurements(M) ==
    [M EXCEPT !.measurementPaths = << >>, !.activeMeasurementId = Null]

\* The computed activeMeasurement (lines 172-175): the first path with the
\* active id, null when there is no active id or no such path.
activeMeasurement(M) ==
    IF M.activeMeasurementId = Null THEN Null
    ELSE IF findIndex(M.measurementPaths, M.activeMeasurementId[1]) = -1 THEN Null
    ELSE Some(M.measurementPaths[findIndex(M.measurementPaths,
                                           M.activeMeasurementId[1])])

\* ------------------------------------------------------ the measurement tool
\* The measurement tool (MeasurementTool.vue) and the store it writes to, as
\* one value. The map instance exists; uuidv4 hands out a new id every time.
NewTool(M) ==
    [store |-> M, isMeasuring |-> FALSE, currentPath |-> << >>, uuids |-> 0]

\* startMeasurement (lines 64-81).
startMeasurement(T) == [T EXCEPT !.isMeasuring = TRUE, !.currentPath = << >>]

\* handleMapClick pushing the point onto an array that the path stored last
\* shares with the tool (as if endMeasurement had stored currentPath.value
\* itself and not a copy).
handleMapClick_SharedArray(T, latlng) ==
    IF ~T.isMeasuring THEN T
    ELSE [T EXCEPT
            !.currentPath = Append(@, [coordinates |-> latlng, label |-> Len(@) + 1]),
            !.store.measurementPaths =
                IF @ = << >> THEN @
                ELSE [@ EXCEPT ![Len(@)].points =
                        Append(@, [coordinates |-> latlng, label |-> Len(@) + 1])]]

\* handleMapClick (lines 172-191), the click handler of the map between
\* startMeasurement and the end of the measurement.
handleMapClick(T, latlng) ==
    IF ~T.isMeasuring THEN T
    ELSE [T EXCEPT !.currentPath =
            Append(@, [coordinates |-> latlng, label |-> Len(@) + 1])]

\* The coordinates of the points of a path (line 98).
Coordinates(path) == [i \in 1..Len(path) |-> path[i].coordinates]

\* endMeasurement that saves whatever has been clicked.
endMeasurement_SavesAnyPath(T) ==
    [T EXCEPT !.store = addMeasurementPath(@,
                            [id |-> T.uuids + 1, points |-> T.currentPath,
                             distance |-> calculatePathDistance(Coordinates(T.currentPath))]),
              !.uuids = @ + 1,
              !.currentPath = << >>,
              !.isMeasuring = FALSE]

\* endMeasurement (lines 84-121).
endMeasurement(T) ==
    IF Len(T.currentPath) >= 2
    THEN [T EXCEPT !.store = addMeasurementPath(@,
                            [id |-> T.uuids + 1, points |-> T.currentPath,
                             distance |-> calculatePathDistance(Coordinates(T.currentPath))]),
                   !.uuids = @ + 1,
                   !.currentPath = << >>,
                   !.isMeasuring = FALSE]
    ELSE [T EXCEPT !.currentPath = << >>, !.isMeasuring = FALSE]

\* cancelMeasurement (lines 124-144).
cancelMeasurement(T) == [T EXCEPT !.currentPath = << >>, !.isMeasuring = FALSE]

\* clearAllMeasurements (lines 147-169).
clearAllMeasurements(T) ==
    [T EXCEPT !.store = clearMeasurements(@),
              !.currentPath = << >>,
              !.isMeasuring = FALSE]

\* -------------------------------------------------------- the coordinate grid
\* The grid of MapContainer.vue. Zoom levels of the map (maxZoom 18); Leaflet
\* snaps the zoom to whole levels.
ZoomLevels == 0..18

\* gridSpacing without the tier of half a degree: zoom 8 and 9 get 0.1.
gridSpacing_NoHalfDegree(zoom) ==
    LET Both(spacing) == [latSpacing |-> spacing, lngSpacing |-> spacing]
    IN  IF zoom <= 1 THEN Both(Num(45))
        ELSE IF zoom <= 2 THEN Both(Num(30))
        ELSE IF zoom <= 3 THEN Both(Num(15))
        ELSE IF zoom <= 4 THEN Both(Num(10))
        ELSE IF zoom <= 6 THEN Both(Num(5))
        ELSE IF zoom <= 7 THEN Both(Num(1))
        ELSE IF zoom <= 11 THEN Both(Literal(1, 10))
        ELSE IF zoom <= 13 THEN Both(Literal(5, 100))
        ELSE Both(Literal(1, 100))

\* The grid spacing in degrees for a zoom level (lines 296-338).
gridSpacing(zoom) ==
    IF zoom <= 1 THEN [latSpacing |-> Num(45), lngSpacing |-> Num(45)]
    ELSE IF zoom <= 2 THEN [latSpacing |-> Num(30), lngSpacing |-> Num(30)]
    ELSE IF zoom <= 3 THEN [latSpacing |-> Num(15), lngSpacing |-> Num(15)]
    ELSE IF zoom <= 4 THEN [latSpacing |-> Num(10), lngSpacing |-> Num(10)]
    ELSE IF zoom <= 5 THEN [latSpacing |-> Num(5), lngSpacing |-> Num(5)]
    ELSE IF zoom <= 6 THEN [latSpacing |-> Num(5), lngSpacing |-> Num(5)]
    ELSE IF zoom <= 7 THEN [latSpacing |-> Num(1), lngSpacing |-> Num(1)]
    ELSE IF zoom <= 9
    THEN [latSpacing |-> Literal(5, 10), lngSpacing |-> Literal(5, 10)]
    ELSE IF zoom <= 11
    THEN [latSpacing |-> Literal(1, 10), lngSpacing |-> Literal(1, 10)]
    ELSE IF zoom <= 13
    THEN [latSpacing |-> Literal(5, 100), lngSpacing |-> Literal(5, 100)]
    ELSE [latSpacing |-> Literal(1, 100), lngSpacing |-> Literal(1, 100)]

\* showLabels (line 299) is true and no branch makes it false.
showLabels(zoom) == TRUE

\* Math.floor(x / spacing) * spacing and Math.ceil(x / spacing) * spacing
\* (lines 341-344).
GridStart(x, spacing) == Times(MathFloor(Over(x, spacing)), spacing)

GridEnd(x, spacing) == Times(MathCeil(Over(x, spacing)), spacing)

\* The label of a coordinate (lines 441-448 and 451-458): the letter of the
\* hemisphere, the degrees, then the minutes and the seconds where they are
\* greater than 0, as the characters of the template string.
formatCoordinate(x, positive, negative) ==
    LET abs == MathAbs(x)
        deg == MathFloor(abs)
        min == MathFloor(Times(Minus(abs, deg), Num(60)))
        sec == MathRound(Times(Minus(Times(Minus(abs, deg), Num(60)), min), Num(60)))
    IN  <<IF LessEq(Zero, x) THEN positive ELSE negative, " ">>
            \o ToDigits(Integer(deg)) \o <<"°">>
            \o (IF Less(Zero, min) THEN <<" ">> \o ToDigits(Integer(min)) \o <<"'">>
                ELSE << >>)
            \o (IF Less(Zero, sec) THEN <<" ">> \o ToDigits(Integer(sec)) \o <<"\"">>
                ELSE << >>)

\* formatLatitude (lines 441-448).
formatLatitude(lat) == formatCoordinate(lat, "N", "S")

\* formatLongitude (lines 451-458).
formatLongitude(lng) == formatCoordinate(lng, "E", "W")

\* The loop of the latitude lines without the test of line 349.
RECURSIVE latLoop_NoRangeTest(_, _, _)
latLoop_NoRangeTest(g, lat, layers) ==
    IF ~LessEq(lat, g.endLat) THEN layers
    ELSE CHOOSE result \in
            {latLoop_NoRangeTest(g, next,
                layers
                \o <<[kind |-> "latLine",
                      latlngs |-> <<<<lat, g.startLng>>, <<lat, g.endLng>>>>]>>
                \o (IF g.showLabels
                    THEN <<[kind |-> "latLabel",
                            latlngs |-> <<<<lat, g.sw[2]>>>>,
                            html |-> formatLatitude(lat)]>>
                    ELSE << >>))
             : next \in {Plus(lat, g.latSpacing)}} : TRUE

\* The loop of the latitude lines (lines 347-379): the layers added to
\* gridLayer, a line and its label for every lat of the loop that is in range.
\* g holds the constants of the function: sw, latSpacing, lngSpacing,
\* startLat, endLat, startLng, endLng and showLabels; next is lat after
\* lat += latSpacing.
RECURSIVE latLoop(_, _, _)
latLoop(g, lat, layers) ==
    IF ~LessEq(lat, g.endLat) THEN layers
    ELSE CHOOSE result \in
            {latLoop(g, next,
                IF Less(lat, Num(-90)) \/ Less(Num(90), lat) THEN layers
                ELSE layers
                     \o <<[kind |-> "latLine",
                           latlngs |-> <<<<lat, g.startLng>>, <<lat, g.endLng>>>>]>>
                     \o (IF g.showLabels
                         THEN <<[kind |-> "latLabel",
                                 latlngs |-> <<<<lat, g.sw[2]>>>>,
                            html |-> formatLatitude(lat)]>>
                         ELSE << >>))
             : next \in {Plus(lat, g.latSpacing)}} : TRUE

\* The loop of the longitude lines (lines 382-414).
RECURSIVE lngLoop(_, _, _)
lngLoop(g, lng, layers) ==
    IF ~LessEq(lng, g.endLng) THEN layers
    ELSE CHOOSE result \in
            {lngLoop(g, next,
                IF Less(lng, Num(-180)) \/ Less(Num(180), lng) THEN layers
                ELSE layers
                     \o <<[kind |-> "lngLine",
                           latlngs |-> <<<<g.startLat, lng>>, <<g.endLat, lng>>>>]>>
                     \o (IF g.showLabels
                         THEN <<[kind |-> "lngLabel",
                                 latlngs |-> <<<<g.sw[1], lng>>>>,
                                 html |-> formatLongitude(lng)]>>
                         ELSE << >>))
             : next \in {Plus(lng, g.lngSpacing)}} : TRUE

\* The constants of updateCoordinateGrid for a spacing (lines 341-344).
GridConstants(spacing, labels, sw, ne) ==
    [sw |-> sw,
     latSpacing |-> spacing.latSpacing,
     lngSpacing |-> spacing.lngSpacing,
     showLabels |-> labels,
     startLat |-> GridStart(sw[1], spacing.latSpacing),
     endLat |-> GridEnd(ne[1], spacing.latSpacing),
     startLng |-> GridStart(sw[2], spacing.lngSpacing),
     endLng |-> GridEnd(ne[2], spacing.lngSpacing)]

\* The spacing chosen and the layers put into gridLayer by updateCoordinateGrid
\* (lines 291-414) for a zoom and the corners sw and ne of the map's bounds.
coordinateGridOf(zoom, sw, ne) ==
    CHOOSE result \in
        {[spacing |-> [latSpacing |-> g.latSpacing, lngSpacing |-> g.lngSpacing],
          layers |-> latLoop(g, g.startLat, << >>)
                         \o lngLoop(g, g.startLng, << >>)]
         : g \in {GridConstants(gridSpacing(zoom), showLabels(zoom), sw, ne)}} : TRUE

\* The south-west corners of the views of the map, [lat, lng] in thousandths
\* of a degree.
Corners == {<<0, 0>>, <<-60000, 10000>>, <<53550, 9990>>, <<-34000, 18000>>}

\* The height and width, in thousandths of a degree, of what a map of one
\* tile (256 pixels) shows at a zoom level; at the lowest zoom levels the map
\* is so small that the view stays inside the valid range.
ViewExtent(zoom) ==
    IF 360000 \div Pow2(zoom) > 30000 THEN 30000 ELSE 360000 \div Pow2(zoom)

\* Views whose bounds reach beyond the valid range: the map is wider than the
\* world or has been dragged past the date line and the pole (getBounds does
\* not wrap or clamp what it returns).
WideViews ==
    {<<zoom, <<-100000, -190000>>, 200000>> : zoom \in {0, 2, 4}}
        \cup {<<zoom, <<80000, 170000>>, 30000>> : zoom \in {4, 6}}
        \cup {<<10, <<89900, 179900>>, 351>>, <<10, <<-90251, -180251>>, 351>>}

\* The views of the map: a zoom level, the south-west corner and the extent;
\* the last one is a view of zoom 5 from (0, 0) to (12, 12).
MapViews ==
    {<<zoom, corner, ViewExtent(zoom)>> : zoom \in ZoomLevels, corner \in Corners}
        \cup {<<5, <<0, 0>>, 12000>>}
        \cup WideViews

\* mapInstance.getBounds() (lines 291-293) for every view: the corners sw and
\* ne in degrees.
getBounds ==
    [view \in MapViews |->
        [sw |-> <<Literal(view[2][1], 1000), Literal(view[2][2], 1000)>>,
         ne |-> <<Literal(view[2][1] + view[3], 1000),
                  Literal(view[2][2] + view[3], 1000)>>]]

\* The grid of every view.
coordinateGrid ==
    [view \in MapViews |->
        coordinateGridOf(view[1], getBounds[view].sw, getBounds[view].ne)]

\* updateCoordinateGrid (lines 275-435) on the store: the layer is loading
\* while the grid is drawn, then stamped and free of errors.
updateCoordinateGrid(M) ==
    setLayerLoading(
        setLayerError(
            updateLayerTimestamp(
                setLayerLoading(M, "coordinateGrid", TRUE), "coordinateGrid"),
            "coordinateGrid", Null),
        "coordinateGrid", FALSE)

\* ------------------------------------------------------------------ actions
\* The state after the modules are loaded and the store is set up, with the
\* storage as the environment provides it.
InitWith(item, health) ==
    /\ now = 0
    /\ ticks = 0
    /\ cache = << >>
    /\ requestQueue = << >>
    /\ processingQueue = FALSE
    /\ loops = {}
    /\ calls = << >>
    /\ startOrder = << >>
    /\ enqueueOrder = << >>
    /\ lastSettle = NoSettle
    /\ markerShapes = << >>
    /\ harborText = << >>
    /\ parsedHarbors = parseHarborData(harborText)
    /\ mapSettings = NewStore(item, health).mapSettings
    /\ windyOptions = NewStore(item, health).windyOptions
    /\ defaultWindyOptions = NewStore(item, health).defaultWindyOptions
    /\ windyIsDefault = NewStore(item, health).windyIsDefault
    /\ userLocation = NewStore(item, health).userLocation
    /\ storage = NewStore(item, health).storage
    /\ storageHealth = NewStore(item, health).storageHealth
    /\ uncaught = NewStore(item, health).uncaught
    /\ measurementPaths = NewStore(item, health).measurementPaths
    /\ activeMeasurementId = NewStore(item, health).activeMeasurementId
    /\ isMeasuring = FALSE
    /\ currentPath = << >>
    /\ uuids = 0
    /\ toolOp = "none"
    /\ gridZoom = 0
    /\ gridBounds = << >>
    /\ gridLines = [spacing |-> << >>, layers |-> << >>]
    /\ harborFacilities = << >>
    /\ harborLoads = {}
    /\ storeOps = 0
    /\ opLog = << >>

\* A first visit: nothing is stored and the storage works.
Init == InitWith(NoItem, "ok")

\* The UI calls fetchSeaMarks(bounds).
FetchSeaMarks ==
    \E vp \in Viewports :
        /\ Len(calls) < MaxCalls
        /\ Commit(fetchSeaMarks(Retire(State), vp))
        /\ UNCHANGED <<now, ticks, parserVars, toolVars, storeVars>>

\* The UI calls fetchBathymetricContours(bounds).
FetchBathymetricContours ==
    \E vp \in Viewports :
        /\ Len(calls) < MaxCalls
        /\ Commit(fetchBathymetricContours(Retire(State), vp))
        /\ UNCHANGED <<now, ticks, parserVars, toolVars, storeVars>>

\* The UI calls fetchHarborFacilities(bounds).
FetchHarborFacilities ==
    \E vp \in Viewports :
        /\ Len(calls) < MaxCalls
        /\ Commit(fetchHarborFacilities(Retire(State), vp))
        /\ UNCHANGED <<now, ticks, parserVars, toolVars, storeVars>>

\* axios.get of call c resolves with a response body.
NetworkSuccess ==
    \E c \in 1..Len(calls) :
        /\ calls[c].state = "inflight"
        /\ Commit(networkSettled(Retire(State), c, TRUE))
        /\ UNCHANGED <<now, ticks, parserVars, toolVars, storeVars>>

\* axios.get of call c rejects (non-2xx status or network error).
NetworkFailure ==
    \E c \in 1..Len(calls) :
        /\ calls[c].state = "inflight"
        /\ Commit(networkSettled(Retire(State), c, FALSE))
        /\ UNCHANGED <<now, ticks, parserVars, toolVars, storeVars>>

\* The setTimeout of line 61 fires, no earlier than its deadline, and the
\* while loop of processQueue goes round.
TimerFire ==
    \E l \in loops :
        /\ l.pc = "delay"
        /\ now >= l.deadline
        /\ Commit(whileLoop([Retire(State) EXCEPT !.loops = @ \ {l}]))
        /\ UNCHANGED <<now, ticks, parserVars, toolVars, storeVars>>

\* A rate-limit timer is armed and not yet due.
TimerPending == \E l \in loops : l.pc = "delay" /\ now < l.deadline

\* Wall-clock time passes: by one tick, or by one tick less than the cache
\* expiry. Time always passes while a timer is pending.
Tick ==
    \E d \in {TickMs, CACHE_EXPIRY - TickMs} :
        /\ ticks < MaxTicks \/ (d = TickMs /\ TimerPending)
        /\ now' = now + d
        /\ ticks' = ticks + 1
        /\ Commit(Retire(State))
        /\ UNCHANGED <<parserVars, toolVars, storeVars>>

Next ==
    \/ FetchSeaMarks
    \/ FetchBathymetricContours
    \/ FetchHarborFacilities
    \/ NetworkSuccess
    \/ NetworkFailure
    \/ TimerFire
    \/ Tick

Spec == Init /\ [][Next]_vars

\* The specification for liveness: the network settles every call, the event
\* loop runs the timer callback once it is due, and the clock advances. The
\* UI is under no obligation to call anything.
LiveBound == Len(calls) < MaxLiveCalls

FairNext ==
    \/ LiveBound /\ FetchSeaMarks
    \/ LiveBound /\ FetchBathymetricContours
    \/ LiveBound /\ FetchHarborFacilities
    \/ NetworkSuccess
    \/ NetworkFailure
    \/ TimerFire
    \/ Tick

FairSpec ==
    /\ Init /\ [][FairNext]_vars
    /\ WF_vars(NetworkSuccess \/ NetworkFailure)
    /\ WF_vars(TimerFire)
    /\ WF_vars(Tick)

\* ------------------------------------------------------ the harbour parser
\* The harbour endpoint's text grows by one call, of any shape, and
\* parseHarborData is applied to it.
ParseHarborData ==
    \E shape \in MarkerShapes :
        /\ Len(markerShapes) < MaxMarkers
        /\ markerShapes' = Append(markerShapes, shape)
        /\ harborText' = HarborText(Append(markerShapes, shape))
        /\ parsedHarbors' = parseHarborData(HarborText(Append(markerShapes, shape)))
        /\ UNCHANGED <<now, ticks, serviceVars, storeVars, toolVars>>

ParserNext == ParseHarborData

ParserSpec == Init /\ [][ParserNext]_vars

\* ------------------------------------------------- the users of the store
\* Values the users of the store pass to it.
Locations == {<<10000, 20000>>}

Zooms == {9}

ToggledLayers == {"seaMarks", "tides"}

Overlays == {"rain"}

Levels == {"850h"}

Timestamps == {Some(3600)}

\* One more operation of a user of the store is recorded.
Logged(op, arg) ==
    /\ storeOps < MaxOps
    /\ storeOps' = storeOps + 1
    /\ opLog' = IF Len(opLog) < 2
                THEN Append(opLog, [op |-> op, arg |-> arg])
                ELSE <<opLog[2], [op |-> op, arg |-> arg]>>

\* A store operation that leaves the data-fetch layer and the map component
\* alone.
StoreOperation(op, arg, M) ==
    /\ Logged(op, arg)
    /\ CommitStore(M)
    /\ UNCHANGED <<now, ticks, serviceVars, parserVars, toolVars, harborFacilities,
                   harborLoads>>

LoadSettings == StoreOperation("loadSettings", "", loadSettings(Store))

SetUserLocation ==
    \E location \in Locations :
        StoreOperation("setUserLocation", "", setUserLocation(Store, location))

UpdateMapView ==
    \E center \in Locations, zoom \in Zooms :
        StoreOperation("updateMapView", "", updateMapView(Store, center, zoom))

ToggleLayer ==
    \E layerName \in ToggledLayers :
        StoreOperation("toggleLayer", layerName, toggleLayer(Store, layerName))

UpdateWindyOverlay ==
    \E overlay \in Overlays :
        StoreOperation("updateWindyOverlay", overlay,
                       updateWindyOverlay(Store, overlay))

UpdateWindyLevel ==
    \E level \in Levels :
        StoreOperation("updateWindyLevel", level, updateWindyLevel(Store, level))

UpdateWindyTimestamp ==
    \E timestamp \in Timestamps :
        StoreOperation("updateWindyTimestamp", "",
                       updateWindyTimestamp(Store, timestamp))

\* A component writes windyOptions.overlay through v-model.
SetWindyOverlayDirectly ==
    \E overlay \in Overlays :
        StoreOperation("windyOptions.overlay", overlay,
                       setWindyOption(Store, "overlay", overlay))

ResetWindyOptions ==
    StoreOperation("resetWindyOptions", "", resetWindyOptions(Store))

\* The page is loaded again: the modules and the store are set up anew, the
\* callbacks of the old page never run, and the storage stays.
ReloadPage ==
    /\ Logged("reload", "")
    /\ CommitStore(NewStore(storage, storageHealth))
    /\ Commit([Retire(State) EXCEPT !.cache = << >>])
    /\ harborFacilities' = << >>
    /\ harborLoads' = {}
    /\ UNCHANGED <<now, ticks, parserVars, toolVars>>

\* updateHarborMarkers (lines 461-503) throws: L.marker (line 483) throws
\* an Error for a latitude or longitude that is NaN.
updateHarborMarkersThrows(harbors) ==
    \E i \in 1..Len(harbors) :
        harbors[i].coordinates[1].nan \/ harbors[i].coordinates[2].nan

\* loadHarborFacilities of the map component (MapContainer.vue, lines
\* 183-218) after the await of line 196 has resolved with the harbours: the
\* layer is stamped and its error cleared, the markers are drawn, and if that
\* throws the catch block sets the error.
harborsLoaded(M, harbors) ==
    setLayerLoading(
        IF updateHarborMarkersThrows(harbors)
        THEN setLayerError(
                setLayerError(updateLayerTimestamp(M, "harborFacilities"),
                              "harborFacilities", Null),
                "harborFacilities", Some("Failed to load harbor facilities"))
        ELSE setLayerError(updateLayerTimestamp(M, "harborFacilities"),
                           "harborFacilities", Null),
        "harborFacilities", FALSE)

\* loadHarborFacilities after the await of line 196 has thrown.
harborsFailed(M) ==
    setLayerLoading(
        setLayerError(M, "harborFacilities",
                      Some("Failed to load harbor facilities")),
        "harborFacilities", FALSE)

\* loadHarborFacilities up to the await of line 196.
loadHarborFacilities(M) == setLayerLoading(M, "harborFacilities", TRUE)

\* The bounds of the map when loadHarborFacilities reads them (lines 190-192):
\* the map is where it was or has been moved.
MapBounds == Viewports \cup {"moved"}

\* The map component calls loadHarborFacilities (the map exists). A fetch
\* served from the cache resolves in the same step.
LoadHarborFacilities ==
    \E vp \in MapBounds :
        LET S == fetchHarborFacilities(Retire(State), vp)
            c == Len(S.calls)
            M == loadHarborFacilities(Store)
        IN  /\ Len(calls) < MaxCalls
            /\ Logged("loadHarborFacilities", "")
            /\ Commit(S)
            /\ IF S.calls[c].state = "resolved"
               THEN /\ CommitStore(harborsLoaded(M, S.calls[c].value))
                    /\ harborFacilities' = S.calls[c].value
                    /\ harborLoads' = harborLoads
               ELSE /\ CommitStore(M)
                    /\ harborFacilities' = harborFacilities
                    /\ harborLoads' = harborLoads \cup {c}
            /\ UNCHANGED <<now, ticks, parserVars, toolVars>>

\* The network call of a harbour load resolves.
HarborLoadSucceeded ==
    \E c \in harborLoads :
        LET S == networkSettled(Retire(State), c, TRUE)
        IN  /\ calls[c].state = "inflight"
            /\ Commit(S)
            /\ CommitStore(harborsLoaded(Store, S.calls[c].value))
            /\ harborFacilities' = S.calls[c].value
            /\ harborLoads' = harborLoads \ {c}
            /\ UNCHANGED <<now, ticks, parserVars, toolVars, storeOps, opLog>>

\* The network call of a harbour load rejects.
HarborLoadFailed ==
    \E c \in harborLoads :
        LET S == networkSettled(Retire(State), c, FALSE)
        IN  /\ calls[c].state = "inflight"
            /\ Commit(S)
            /\ CommitStore(harborsFailed(Store))
            /\ harborLoads' = harborLoads \ {c}
            /\ UNCHANGED <<now, ticks, parserVars, toolVars, harborFacilities,
                           storeOps, opLog>>

\* A session of the application: the storage holds what an earlier session,
\* another version of the application or anything else has left there, and
\* it works, or its reads fail, or its writes fail.
StoreInit ==
    \E item \in StoredItems, health \in StorageHealths : InitWith(item, health)

\* The store under the operations of its users.
StoreNext ==
    \/ LoadSettings
    \/ SetUserLocation
    \/ UpdateMapView
    \/ ToggleLayer
    \/ UpdateWindyOverlay
    \/ UpdateWindyLevel
    \/ UpdateWindyTimestamp
    \/ SetWindyOverlayDirectly
    \/ ResetWindyOptions
    \/ ReloadPage
    \/ Tick

StoreSpec == StoreInit /\ [][StoreNext]_vars

\* Values the components pass to the store: the message of an error and a
\* measured path.
LayerErrors == {Null, Some("Failed to load depth data")}

MeasuredPaths ==
    {[id |-> 1,
      points |-> <<[coordinates |-> <<Num(53), Num(10)>>, label |-> 1],
                   [coordinates |-> <<Num(53), Num(10)>>, label |-> 2]>>,
      distance |-> Zero]}

SetLayerLoading ==
    \E layerName \in ToggledLayers, loading \in BOOLEAN :
        StoreOperation("setLayerLoading", layerName,
                       setLayerLoading(Store, layerName, loading))

SetLayerError ==
    \E layerName \in ToggledLayers, error \in LayerErrors :
        StoreOperation("setLayerError", layerName,
                       setLayerError(Store, layerName, error))

AddMeasurementPath ==
    \E path \in MeasuredPaths :
        StoreOperation("addMeasurementPath", "", addMeasurementPath(Store, path))

\* A session in which the components set the states of the layers.
LayerInit == \E item \in LayerItems : InitWith(item, "ok")

LayerNext ==
    \/ LoadSettings
    \/ SetLayerLoading
    \/ SetLayerError
    \/ AddMeasurementPath

LayerSpec == LayerInit /\ [][LayerNext]_vars

\* The map component loading the harbour layer into the store.
MapNext ==
    \/ LoadHarborFacilities
    \/ HarborLoadSucceeded
    \/ HarborLoadFailed
    \/ Tick

MapSpec == Init /\ [][MapNext]_vars

\* loadHarborFacilities called for the bounds vp with the service in state S
\* and the store in state M, while the component awaits the fetches of loads:
\* the load runs up to its await, and to its end if the cache serves it.
BeginHarborLoad(S, M, loads, vp) ==
    /\ Len(calls) < MaxCalls
    /\ Commit(fetchHarborFacilities(S, vp))
    /\ IF isCacheValid(S.cache, <<"harbors-", vp>>)
       THEN /\ CommitStore(harborsLoaded(loadHarborFacilities(M),
                                         S.cache[<<"harbors-", vp>>].data))
            /\ harborFacilities' = S.cache[<<"harbors-", vp>>].data
            /\ harborLoads' = loads
       ELSE /\ CommitStore(loadHarborFacilities(M))
            /\ UNCHANGED harborFacilities
            /\ harborLoads' = loads \cup {Len(calls) + 1}

\* The user switches the harbour layer in the layer control: toggleLayer
\* (LayerControl.vue, line 40), then the watcher of the visibilities runs
\* updateLayerVisibility (MapContainer.vue, lines 625-636), which loads the
\* harbours when the layer is visible and none are held (lines 567-573).
ToggleHarborLayer ==
    /\ Logged("toggleLayer", "harborFacilities")
    /\ IF /\ toggleLayer(Store, "harborFacilities")
                .mapSettings.layers["harborFacilities"].visible
          /\ harborFacilities = << >>
       THEN \E vp \in MapBounds :
               BeginHarborLoad(Retire(State), toggleLayer(Store, "harborFacilities"),
                               harborLoads, vp)
       ELSE /\ CommitStore(toggleLayer(Store, "harborFacilities"))
            /\ Commit(Retire(State))
            /\ UNCHANGED <<harborFacilities, harborLoads>>
    /\ UNCHANGED <<now, ticks, parserVars, toolVars>>

\* The map has been moved: handleMapMoveEnd (lines 506-526) stores the view
\* and loads the harbours of the new bounds when the layer is visible.
HandleMapMoveEnd ==
    \E center \in Locations, zoom \in Zooms :
        /\ Logged("handleMapMoveEnd", "")
        /\ IF mapSettings.layers["harborFacilities"].visible
           THEN \E vp \in MapBounds :
                   BeginHarborLoad(Retire(State), updateMapView(Store, center, zoom),
                                   harborLoads, vp)
           ELSE /\ CommitStore(updateMapView(Store, center, zoom))
                /\ Commit(Retire(State))
                /\ UNCHANGED <<harborFacilities, harborLoads>>
        /\ UNCHANGED <<now, ticks, parserVars, toolVars>>

\* A new session: the page is loaded again, the store is set up anew and
\* initializeMap runs loadSettings and updateLayerVisibility (lines 163-169),
\* which loads the harbours when the stored settings show the layer. The
\* callbacks of the old page never run.
NewSession ==
    /\ Logged("reload", "")
    /\ IF loadSettings(NewStore(storage, storageHealth))
            .mapSettings.layers["harborFacilities"].visible
       THEN \E vp \in MapBounds :
               /\ BeginHarborLoad([Retire(State) EXCEPT !.cache = << >>],
                                  loadSettings(NewStore(storage, storageHealth)),
                                  {}, vp)
       ELSE /\ CommitStore(loadSettings(NewStore(storage, storageHealth)))
            /\ Commit([Retire(State) EXCEPT !.cache = << >>])
            /\ harborFacilities' = << >>
            /\ harborLoads' = {}
    /\ UNCHANGED <<now, ticks, parserVars, toolVars>>

\* Sessions of the application, one after the other, with the harbour layer
\* switched on and off and the map moved while harbours are loaded.
SessionNext ==
    \/ ToggleHarborLayer
    \/ HandleMapMoveEnd
    \/ HarborLoadSucceeded
    \/ HarborLoadFailed
    \/ NewSession
    \/ Tick

SessionSpec == Init /\ [][SessionNext]_vars

\* The measurement tool and its store, as one value.
Tool ==
    [store |-> Store, isMeasuring |-> isMeasuring, currentPath |-> currentPath,
     uuids |-> uuids]

\* An operation op on the measurement tool or its store.
ToolOperation(op, T) ==
    /\ CommitStore(T.store)
    /\ isMeasuring' = T.isMeasuring
    /\ currentPath' = T.currentPath
    /\ uuids' = T.uuids
    /\ toolOp' = op
    /\ UNCHANGED <<now, ticks, serviceVars, parserVars, harborFacilities,
                   harborLoads, storeOps, opLog, gridZoom, gridBounds, gridLines>>

StartMeasurement == ToolOperation("startMeasurement", startMeasurement(Tool))

\* The user clicks the map at one of the points.
HandleMapClick(points) ==
    \E latlng \in points :
        /\ isMeasuring
        /\ Len(currentPath) < MaxPoints
        /\ ToolOperation("handleMapClick", handleMapClick(Tool, latlng))

EndMeasurement ==
    /\ Len(currentPath) >= 2 => uuids < MaxPaths
    /\ ToolOperation("endMeasurement", endMeasurement(Tool))

CancelMeasurement == ToolOperation("cancelMeasurement", cancelMeasurement(Tool))

ClearAllMeasurements ==
    ToolOperation("clearAllMeasurements", clearAllMeasurements(Tool))

\* A component removes the path with one of the ids handed out so far, or
\* with an id no path has.
RemoveMeasurementPath ==
    \E id \in 0..uuids :
        ToolOperation("removeMeasurementPath",
                      [Tool EXCEPT !.store = removeMeasurementPath(@, id)])

\* The measurement tool taking and removing measurements.
MeasureNext ==
    \/ StartMeasurement
    \/ HandleMapClick(SurveyPoints)
    \/ EndMeasurement
    \/ CancelMeasurement
    \/ ClearAllMeasurements
    \/ RemoveMeasurementPath

MeasureSpec == Init /\ [][MeasureNext]_vars

\* One measurement in progress, anywhere on the globe.
GeoNext ==
    \/ StartMeasurement
    \/ HandleMapClick(Points)
    \/ CancelMeasurement

GeoSpec == Init /\ [][GeoNext]_vars

\* The map has been moved or zoomed to one of the views and the grid is
\* drawn for it (handleMapMoveEnd and handleMapZoomEnd call
\* updateCoordinateGrid).
UpdateCoordinateGrid ==
    \E view \in MapViews :
        /\ gridZoom' = view[1]
        /\ gridBounds' = getBounds[view]
        /\ gridLines' = coordinateGrid[view]
        /\ CommitStore(updateCoordinateGrid(Store))
        /\ UNCHANGED <<now, ticks, serviceVars, parserVars, harborFacilities,
                       harborLoads, storeOps, opLog, isMeasuring, currentPath,
                       uuids, toolOp>>

\* The grid following the map while the clock runs.
GridNext ==
    \/ UpdateCoordinateGrid
    \/ Tick

GridSpec == Init /\ [][GridNext]_vars

\* ================================================================== claims
CallIds == DOMAIN calls

Pending(c) == calls[c].state \in {"queued", "inflight"}

\* The tasks of the queue whose network call is in flight.
QueuedInFlight == {c \in CallIds : calls[c].viaQueue /\ calls[c].state = "inflight"}

\* C1: the tasks of the queue are started in the order in which queueRequest
\* was called: the sequence of started tasks is always a prefix of the
\* sequence of enqueued tasks, whatever the earlier tasks' outcomes.
C1_StartOrderIsEnqueueOrder ==
    /\ Len(startOrder) <= Len(enqueueOrder)
    /\ \A i \in 1..Len(startOrder) : startOrder[i] = enqueueOrder[i]

\* Three tasks were queued and started, the first failed, the second
\* succeeded.
C1_Witness ==
    /\ startOrder = <<1, 2, 3>>
    /\ calls[1].state = "rejected"
    /\ calls[2].state = "resolved"

\* C2: at most one task taken from the request queue is in flight at any
\* time.
C2_OneTaskInFlight == Cardinality(QueuedInFlight) <= 1

\* A task submitted during the inter-task delay is running while a task
\* submitted during its run waits in the queue.
C2_Witness ==
    \E c, d \in CallIds :
        /\ calls[c].state = "inflight" /\ calls[c].enqPhase = "delay"
        /\ calls[d].state = "queued" /\ calls[d].enqPhase = "busy"

\* C3: a task of the queue that is not the first one starts when its
\* predecessor has settled, and no earlier than 1000/API_RATE_LIMIT ms after
\* that settlement.
C3_DelayAfterSettlement ==
    \A c \in CallIds :
        calls[c].pred # 0 => calls[c].sinceSettle >= 1000 \div API_RATE_LIMIT

\* A task submitted when the queue had just become idle, after a failed
\* task, starts exactly 200 ms after that task's settlement.
C3_Witness ==
    \E c \in CallIds :
        /\ calls[c].pred # 0
        /\ calls[calls[c].pred].state = "rejected"
        /\ calls[c].enqPhase = "idle"
        /\ calls[c].sinceSettle = 200

\* C4: every task passed to queueRequest is started and its promise settles,
\* provided the network settles every call and the timer fires: a task
\* submitted while the queue is idle is started in the same step, and a task
\* submitted while the processor is busy or in its delay is not stranded.
C4_EveryTaskIsProcessed ==
    /\ [](\A c \in CallIds : calls[c].enqPhase = "idle" => calls[c].state # "queued")
    /\ \A c \in 1..MaxLiveCalls :
          (c \in CallIds /\ calls[c].viaQueue /\ Pending(c))
              ~> (c \in CallIds /\ Settled(calls[c]))

\* A task submitted during the delay that follows the last task has settled.
C4_Witness ==
    \E c \in CallIds : Settled(calls[c]) /\ calls[c].enqPhase = "delay"

\* C5: the failure of a task of the queue rejects the promise of that task
\* only, with that task's error, and leaves the queue as it is; every other
\* task still settles, a resolved one with the body of its own network call.
C5_FailureIsolated ==
    /\ [][\A c \in CallIds :
            (calls[c].viaQueue /\ calls[c].state = "inflight"
                /\ calls'[c].state = "rejected")
            => /\ calls'[c].error = ErrorMessage(calls[c].op)
               /\ requestQueue' = requestQueue
               /\ processingQueue'
               /\ \A d \in CallIds \ {c} : calls'[d].state = calls[d].state]_vars
    /\ [](\A c \in CallIds :
            (calls[c].netOutcome = "ok" /\ calls[c].op # "harbors")
            => calls[c].state = "resolved" /\ calls[c].value = JsonResponse(c))
    /\ \A d \in 1..MaxLiveCalls :
          (/\ d \in CallIds /\ calls[d].viaQueue /\ Pending(d)
           /\ \E c \in CallIds : calls[c].state = "rejected")
              ~> (d \in CallIds /\ Settled(calls[d]))

\* The first of two tasks failed; the second, submitted while the first was
\* running, has just resolved with its own body.
C5_Witness ==
    /\ startOrder = <<1, 2>>
    /\ calls[1].state = "rejected"
    /\ calls[2].state = "resolved"
    /\ calls[2].enqPhase = "busy"
    /\ calls[2].value = JsonResponse(2)

\* C6 (as claimed): every network call of a cached fetch operation is the
\* task the queue processor is currently awaiting, so no network call is in
\* flight outside the queue's schedule.
C6_EveryNetworkCallThroughQueue ==
    \A c \in CallIds :
        calls[c].state = "inflight"
            => \E l \in loops : l.task = c /\ l.pc = "task"

\* C7: a lookup is a hit exactly when an entry exists and is younger than 30
\* minutes; a hit returns the stored value.
C7_HitIffFresh ==
    \A c \in CallIds :
        /\ calls[c].hit <=> (calls[c].age >= 0 /\ calls[c].age < 30 * 60 * 1000)
        /\ calls[c].hit =>
              /\ calls[c].state = "resolved"
              /\ calls[c].value = cache[calls[c].key].data

\* A lookup made when exactly 30 minutes have elapsed was a miss.
C7_Witness ==
    \E c \in CallIds :
        calls[c].age = 30 * 60 * 1000 /\ ~calls[c].hit /\ Pending(c)

\* C8: a fetch served from the cache returns the entry's data and changes
\* nothing else: the cache, the request queue, the flag, the processor and
\* every other call stay as they were.
C8_HitChangesNothing ==
    [][LET c == Len(calls')
       IN  (Len(calls') > Len(calls) /\ calls'[c].hit)
           => /\ calls'[c].value = cache[calls'[c].key].data
              /\ cache' = cache
              /\ requestQueue' = requestQueue
              /\ processingQueue' = processingQueue
              /\ loops' = loops
              /\ startOrder' = startOrder /\ enqueueOrder' = enqueueOrder
              /\ \A d \in CallIds : calls'[d].state = calls[d].state]_vars

\* A fetch was served from the cache while another call waits in the queue.
C8_Witness ==
    \E c, d \in CallIds : calls[c].hit /\ calls[d].state = "queued"

\* The body the network returned to call c, as the operation hands it on.
OwnResult(c) ==
    IF calls[c].op = "harbors"
    THEN parseHarborData(HarborResponse(c))
    ELSE JsonResponse(c)

\* C9: when the network call of a fetch fails, the operation rejects with
\* its error and the cache stays exactly as it was; a fetch for a key without
\* an entry always issues a network call.
C9_FailureCachesNothing ==
    [][/\ \A c \in CallIds :
            (calls[c].state = "inflight" /\ calls'[c].state = "rejected")
            => /\ cache' = cache
               /\ calls'[c].error = ErrorMessage(calls[c].op)
       /\ LET n == Len(calls')
          IN  (Len(calls') > Len(calls) /\ calls'[n].key \notin DOMAIN cache)
              => calls'[n].state \in {"queued", "inflight"}]_vars

\* A fetch has just been rejected and its key has no entry.
C9_Witness ==
    \E c \in CallIds :
        /\ calls[c].state = "rejected"
        /\ calls[c].error = "Failed to fetch harbor facilities data"
        /\ calls[c].key \notin DOMAIN cache

\* C10 (as claimed): once the fetches started for an uncached key have all
\* settled and the key has an entry, the entry holds the value and timestamp
\* of the call that settled last.
C10_EntryIsOfLastSettled ==
    \A c \in CallIds :
        (/\ Settled(calls[c]) /\ calls[c].netOutcome # "none"
         /\ calls[c].age = -1
         /\ calls[c].key \in DOMAIN cache
         /\ \A d \in CallIds \ {c} : ~(Pending(d) /\ calls[d].key = calls[c].key))
        => cache[calls[c].key] = [data |-> calls[c].value, timestamp |-> now]

\* C10 (amended): every fetch that misses gets a network call of its own;
\* each successful one writes the entry of its key with its own result and
\* the time of its settlement, and nothing else writes an entry: the entry
\* holds the value and timestamp of the successful call that settled last.
C10_LastSuccessfulWriteWins ==
    [][/\ \A c \in CallIds :
            (calls[c].state = "inflight" /\ calls'[c].state = "resolved")
            => /\ calls'[c].value = OwnResult(c)
               /\ cache'[calls[c].key] = [data |-> OwnResult(c), timestamp |-> now]
       /\ \A k \in DOMAIN cache' :
            (k \notin DOMAIN cache \/ cache'[k] # cache[k])
            => \E c \in CallIds :
                  /\ calls[c].key = k
                  /\ calls[c].state = "inflight" /\ calls'[c].state = "resolved"
       /\ LET n == Len(calls')
          IN  (Len(calls') > Len(calls) /\ ~calls'[n].hit)
              => \/ calls'[n].state = "inflight"
                 \/ /\ calls'[n].state = "queued"
                    /\ Cardinality({i \in DOMAIN requestQueue' :
                                        requestQueue'[i] = n}) = 1]_vars

\* Two harbour fetches for the same key overlapped; the second settled first,
\* the first has just settled, and the entry holds the first one's result.
C10_Witness ==
    /\ Len(calls) = 2
    /\ calls[2].state = "resolved" /\ calls[2].netOutcome = "none"
    /\ calls[1].op = "harbors" /\ calls[1].netOutcome = "ok"
    /\ DOMAIN cache = {calls[1].key}
    /\ cache[calls[1].key] = [data |-> calls[1].value, timestamp |-> now]

\* The record parseHarborData owes to the k-th call of a text.
ExpectedHarbor(k) ==
    [id |-> ToDigits(7 * k), type |-> "harbor",
     name |-> IF k % 2 = 1 THEN <<"T", "e", "s", "t">> ELSE <<"K", "i", "e", "l">>,
     coordinates |-> <<[nan |-> FALSE, milli |-> IF k % 2 = 1 THEN 2500 ELSE 0 - 750],
                       [nan |-> FALSE, milli |-> 53100]>>,
     metadata |-> [country |-> IF k % 2 = 1 THEN <<"N", "L">> ELSE <<"D", "E">>,
                   size |-> k]]

\* The positions of the well-formed calls of a text, in text order.
RECURSIVE WellFormedCalls(_)
WellFormedCalls(shapes) ==
    IF shapes = << >>
    THEN << >>
    ELSE LET n == Len(shapes)
             before == WellFormedCalls(SubSeq(shapes, 1, n - 1))
         IN  IF shapes[n] \in WellFormedShapes THEN Append(before, n) ELSE before

C12_FinalSemicolonOptional ==
    LET n == Len(markerShapes)
    IN  (n > 0 /\ markerShapes[n] = "noSemicolon")
        => Len(parsedHarbors) =
              Len(parseHarborData(
                    HarborText([markerShapes EXCEPT ![n] = "spaced"])))

\* The step is the operation op(arg) of a user of the store.
Did(op, arg) ==
    /\ storeOps' = storeOps + 1
    /\ opLog'[Len(opLog')] = [op |-> op, arg |-> arg]

\* The settings as the stored item holds them.
ItemHolds(item, settings) ==
    /\ item.kind = "object"
    /\ {"center", "zoom", "layers"} \subseteq DOMAIN item.value
    /\ item.value.center = settings.center
    /\ item.value.zoom = settings.zoom
    /\ item.value.layers = settings.layers

\* C13: toggleLayer on a known layer flips visible, stamps lastUpdated with
\* the current time and writes the settings to the storage; applied twice
\* it brings visible back to its value.
C13_ToggleTwiceRestores ==
    /\ [][\A n \in LayerNames :
            Did("toggleLayer", n)
            => /\ mapSettings'.layers[n].visible = ~mapSettings.layers[n].visible
               /\ mapSettings'.layers[n].lastUpdated = Some(now)
               /\ storageHealth = "ok" => ItemHolds(storage', mapSettings')]_vars
    /\ [](\A n \in LayerNames :
            toggleLayer(toggleLayer(Store, n), n).mapSettings.layers[n].visible
                = mapSettings.layers[n].visible)

\* seaMarks was toggled twice in a row, the second time at a later time, and
\* the storage holds the settings.
C13_Witness ==
    /\ opLog = <<[op |-> "toggleLayer", arg |-> "seaMarks"],
                 [op |-> "toggleLayer", arg |-> "seaMarks"]>>
    /\ now > 0
    /\ mapSettings.layers["seaMarks"].lastUpdated = Some(now)
    /\ ~mapSettings.layers["seaMarks"].visible
    /\ ItemHolds(storage, mapSettings)

\* C14 (as claimed): mapSettings.layers always has exactly the six known
\* layer names.
C14_LayersAreTheKnownSet ==
    DOMAIN mapSettings.layers =
        {"seaMarks", "harborFacilities", "coordinateGrid", "depthSoundings",
         "bathymetricContours", "windy"}

\* C15 (as claimed): after loadSettings on an item that lacks some layers,
\* every layer the item lacks has the default state and every layer it holds
\* has the stored state.
C15_MissingLayersAreDefault ==
    [][(/\ Did("loadSettings", "")
        /\ storageHealth # "readFails"
        /\ storage.kind = "object"
        /\ "layers" \in DOMAIN storage.value)
       => \A l \in LayerNames :
            mapSettings'.layers[l] =
                IF l \in DOMAIN storage.value.layers
                THEN storage.value.layers[l]
                ELSE [visible |-> FALSE, loading |-> FALSE,
                      error |-> Null, lastUpdated |-> Null]]_vars

\* C16: whatever state the store is in, what saveSettings writes makes
\* loadSettings in a new store reproduce its center, zoom, layers and Windy
\* options.
C16_SaveLoadRoundTrip ==
    storageHealth = "ok"
    => LET saved == saveSettings(Store).storage
           fresh == loadSettings(NewStore(saved, "ok"))
       IN  /\ fresh.mapSettings.center = mapSettings.center
           /\ fresh.mapSettings.zoom = mapSettings.zoom
           /\ fresh.mapSettings.layers = mapSettings.layers
           /\ fresh.windyOptions = windyOptions

\* A store saved the overlay "rain"; the page was loaded again and
\* loadSettings has brought the new store to what was saved.
C16_Witness ==
    /\ opLog = <<[op |-> "reload", arg |-> ""], [op |-> "loadSettings", arg |-> ""]>>
    /\ storeOps = 3
    /\ storageHealth = "ok"
    /\ ItemHolds(storage, mapSettings)
    /\ "windyOptions" \in DOMAIN storage.value
    /\ storage.value.windyOptions = windyOptions
    /\ windyOptions.overlay = "rain"
    /\ mapSettings.layers["windy"].lastUpdated # Null

\* C17 (as claimed): after an operation that changes center, zoom or a
\* layer's visible flag, with working storage, the stored item holds the
\* center, zoom and layers of mapSettings.
C17_MutationsArePersisted ==
    [][(/\ storageHealth = "ok"
        /\ \/ Did("setUserLocation", "")
           \/ Did("updateMapView", "")
           \/ \E n \in LayerNames : Did("toggleLayer", n))
       => ItemHolds(storage', mapSettings')]_vars

\* C18 (as claimed): no layer is loading while it still has the error of an
\* earlier load.
C18_NoStaleErrorWhileLoading ==
    \A l \in DOMAIN mapSettings.layers :
        ~(mapSettings.layers[l].loading /\ mapSettings.layers[l].error # Null)

\* C19 (as claimed): after resetWindyOptions the Windy options are the
\* defaults.
C19_ResetRestoresDefaults ==
    [][Did("resetWindyOptions", "")
       => windyOptions' =
            [overlay |-> "wind", level |-> "surface", timestamp |-> Null]]_vars

\* The in-memory state of the store.
Memory ==
    <<mapSettings, windyOptions, defaultWindyOptions, windyIsDefault, userLocation>>

\* The item is a settings object: center, zoom, a layers object of exactly
\* the known layers and, if present, complete Windy options.
ValidSettingsObject(item) ==
    /\ item.kind = "object"
    /\ {"center", "zoom", "layers"} \subseteq DOMAIN item.value
    /\ DOMAIN item.value.layers = LayerNames
    /\ "windyOptions" \in DOMAIN item.value
         => DOMAIN item.value.windyOptions = {"overlay", "level", "timestamp"}

PathIds(paths) == [i \in 1..Len(paths) |-> paths[i].id]

\* The paths without the one that has the id, in their order.
PathsWithout(paths, id) ==
    LET Other(path) == path.id # id IN SelectSeq(paths, Other)

\* C21: removeMeasurementPath(id) removes exactly the stored path with that id
\* and keeps the other paths in their order; the active id becomes null if and
\* only if it was id; if no stored path has the id the collection is unchanged.
C21_RemoveByIdentity ==
    [][toolOp' = "removeMeasurementPath" =>
        \E id \in 0..uuids :
            /\ measurementPaths' = PathsWithout(measurementPaths, id)
            /\ (\A i \in 1..Len(measurementPaths) : measurementPaths[i].id # id)
                  => measurementPaths' = measurementPaths
            /\ activeMeasurementId' =
                  IF activeMeasurementId = Some(id) THEN Null
                  ELSE activeMeasurementId
            /\ (activeMeasurementId' = Null /\ activeMeasurementId # Null)
                  <=> activeMeasurementId = Some(id)]_vars

\* Three paths were measured and the middle one has been removed.
C21_Witness ==
    /\ toolOp = "removeMeasurementPath"
    /\ uuids = 3
    /\ PathIds(measurementPaths) = <<1, 3>>
    /\ activeMeasurementId = Some(3)

\* C22: every path in the store has two or more points, and ending or
\* cancelling a measurement of zero or one points adds nothing to the store.
C22_OnlyFinalizedPathsAreStored ==
    /\ [](\A i \in 1..Len(measurementPaths) :
             Len(measurementPaths[i].points) >= 2)
    /\ [][(/\ toolOp' \in {"endMeasurement", "cancelMeasurement"}
           /\ Len(currentPath) < 2)
              => measurementPaths' = measurementPaths]_vars

\* A measurement of fewer than two points has been ended while the store held
\* a path: the second id was handed out to a path that has been removed since.
C22_Witness ==
    /\ toolOp = "endMeasurement"
    /\ uuids = 2
    /\ PathIds(measurementPaths) = <<1>>
    /\ Len(measurementPaths[1].points) >= 2

\* A grid has been drawn.
GridDrawn == gridLines.layers # << >>

\* The table of the spacing: degrees per zoom level.
SpacingTable(zoom) ==
    CASE zoom <= 1 -> Num(45)
      [] zoom = 2 -> Num(30)
      [] zoom = 3 -> Num(15)
      [] zoom = 4 -> Num(10)
      [] zoom \in {5, 6} -> Num(5)
      [] zoom = 7 -> Num(1)
      [] zoom \in {8, 9} -> Literal(5, 10)
      [] zoom \in {10, 11} -> Literal(1, 10)
      [] zoom \in {12, 13} -> Literal(5, 100)
      [] zoom > 13 -> Literal(1, 100)

\* C23: at every zoom level the spacing of the grid, the same for latitude and
\* longitude, is the one of the table (45, 30, 15, 10, 5, 5, 1, 0.5, 0.5, 0.1,
\* 0.1, 0.05, 0.05, then 0.01), so it never increases when the zoom increases.
C23_SpacingIsTheTable ==
    GridDrawn =>
        /\ gridLines.spacing.latSpacing = SpacingTable(gridZoom)
        /\ gridLines.spacing.lngSpacing = SpacingTable(gridZoom)
        /\ \A zoom \in ZoomLevels :
              zoom < gridZoom =>
                  LessEq(gridLines.spacing.latSpacing,
                         gridSpacing(zoom).latSpacing)

\* The grid of zoom level 9 has a spacing of half a degree.
C23_Witness ==
    /\ GridDrawn
    /\ gridZoom = 9
    /\ gridLines.spacing = [latSpacing |-> Literal(5, 10),
                            lngSpacing |-> Literal(5, 10)]

\* The layers of one kind in gridLayer, in the order they were added.
LayersOf(kind) ==
    LET OfKind(layer) == layer.kind = kind IN SelectSeq(gridLines.layers, OfKind)

\* The latitudes of the latitude lines and the longitudes of the longitude
\* lines of the grid.
LatLines ==
    [i \in 1..Len(LayersOf("latLine")) |-> LayersOf("latLine")[i].latlngs[1][1]]

LngLines ==
    [i \in 1..Len(LayersOf("lngLine")) |-> LayersOf("lngLine")[i].latlngs[1][2]]

\* The lines run from the multiple floor(low / spacing) of the spacing to the
\* multiple ceil(high / spacing), one line for every multiple, in increasing
\* order.
LinesCover(lines, low, high, spacing) ==
    /\ Num(Len(lines)) =
          Plus(Minus(MathCeil(Over(high, spacing)),
                     MathFloor(Over(low, spacing))), Num(1))
    /\ lines[1] = GridStart(low, spacing)
    /\ LessEq(GridEnd(high, spacing), lines[Len(lines)])
    /\ \A i \in 1..(Len(lines) - 1) : Less(lines[i], lines[i + 1])

\* Every line in gridLayer is followed by its label.
EveryLineLabelled ==
    \A i \in 1..Len(gridLines.layers) :
        LET layer == gridLines.layers[i]
        IN  /\ layer.kind = "latLine" =>
                  /\ i < Len(gridLines.layers)
                  /\ gridLines.layers[i + 1].kind = "latLabel"
                  /\ gridLines.layers[i + 1].latlngs[1][1] = layer.latlngs[1][1]
            /\ layer.kind = "lngLine" =>
                  /\ i < Len(gridLines.layers)
                  /\ gridLines.layers[i + 1].kind = "lngLabel"
                  /\ gridLines.layers[i + 1].latlngs[1][2] = layer.latlngs[1][2]

\* The bounds of the map are inside the valid range of latitude and
\* longitude.
InsideValidRange ==
    /\ LessEq(Num(-90), gridBounds.sw[1]) /\ LessEq(gridBounds.ne[1], Num(90))
    /\ LessEq(Num(-180), gridBounds.sw[2]) /\ LessEq(gridBounds.ne[2], Num(180))

\* C24: for bounds inside the valid range the latitude lines are the
\* multiples of the spacing from floor(south / spacing) * spacing up to
\* ceil(north / spacing) * spacing inclusive, in increasing order, the
\* longitude lines likewise from west to east, and every line has a label.
C24_LinesAreTheMultiples ==
    GridDrawn /\ InsideValidRange =>
        /\ LinesCover(LatLines, gridBounds.sw[1], gridBounds.ne[1],
                      gridLines.spacing.latSpacing)
        /\ LinesCover(LngLines, gridBounds.sw[2], gridBounds.ne[2],
                      gridLines.spacing.lngSpacing)
        /\ EveryLineLabelled

\* The points of the measurement in progress.
ClickedPoints == Coordinates(currentPath)

\* The sum of calculateDistance over the pairs of consecutive points, 0 for
\* fewer than 2 points.
RECURSIVE PairSum(_)
PairSum(points) ==
    IF Len(points) < 2 THEN Zero
    ELSE Plus(PairSum(SubSeq(points, 1, Len(points) - 1)),
              calculateDistance(points[Len(points) - 1], points[Len(points)]))

\* C25: calculatePathDistance is 0 for fewer than 2 points and otherwise the
\* sum of calculateDistance over the pairs of consecutive points: a point q
\* appended to a path adds exactly calculateDistance(last point, q), and a
\* path [p, p] has distance 0.
C25_PathDistanceIsTheSum ==
    /\ calculatePathDistance(ClickedPoints) = PairSum(ClickedPoints)
    /\ Len(ClickedPoints) < 2 => calculatePathDistance(ClickedPoints) = Zero
    /\ \A q \in Points :
          ClickedPoints # << >> =>
              calculatePathDistance(Append(ClickedPoints, q)) =
                  Plus(calculatePathDistance(ClickedPoints),
                       calculateDistance(ClickedPoints[Len(ClickedPoints)], q))
    /\ \A p \in Points : calculatePathDistance(<<p, p>>) = Zero

\* Three different points have been clicked and the path has a length that is
\* the sum of two distances that are not zero.
C25_Witness ==
    /\ Len(ClickedPoints) = 3
    /\ ClickedPoints[1] = <<Num(0), Num(0)>>
    /\ ClickedPoints[2] = <<Num(53), Num(10)>>
    /\ ClickedPoints[3] = <<Num(-34), Num(18)>>
    /\ ~calculatePathDistance(ClickedPoints).nan
    /\ Less(calculateDistance(ClickedPoints[1], ClickedPoints[2]),
            calculatePathDistance(ClickedPoints))

\* The haversine distance with the term a clamped to [0, 1] before the
\* square roots.
ClampedDistance(point1, point2) ==
    LET phi1 == Over(Times(point1[1], MathPI), Num(180))
        phi2 == Over(Times(point2[1], MathPI), Num(180))
        dphi == Over(Times(Minus(point2[1], point1[1]), MathPI), Num(180))
        dlambda == Over(Times(Minus(point2[2], point1[2]), MathPI), Num(180))
        a == Plus(Times(MathSin(Over(dphi, Num(2))), MathSin(Over(dphi, Num(2)))),
                  Times(Times(Times(MathCos(phi1), MathCos(phi2)),
                              MathSin(Over(dlambda, Num(2)))),
                        MathSin(Over(dlambda, Num(2)))))
        clamped == IF Less(Num(1), a) THEN Num(1) ELSE IF Less(a, Zero) THEN Zero ELSE a
        c == Times(Num(2), MathAtan2(MathSqrt(clamped), MathSqrt(Minus(Num(1), clamped))))
    IN  Times(Num(6371000), c)

\* C26: calculateDistance clamps the term a to [0, 1] before the square roots,
\* so for every pair of points, coincident and nearly antipodal ones included,
\* the distance is a finite number that is not negative.
C26_DistanceIsFinite ==
    \A i \in 2..Len(ClickedPoints) :
        LET d == calculateDistance(ClickedPoints[i - 1], ClickedPoints[i])
        IN  /\ ~d.nan
            /\ ~d.neg
            /\ d = ClampedDistance(ClickedPoints[i - 1], ClickedPoints[i])

\* C27: when the network call of a cached fetch succeeds, the cache holds
\* under the call's key the value returned to the caller (for harbours the
\* parsed records, not the response body) with the time of the settlement as
\* timestamp, and the entries of all other keys are unchanged.
C27_SuccessCachesTheResult ==
    [][\A c \in CallIds :
          (calls[c].state = "inflight" /\ calls'[c].state = "resolved")
          => /\ DOMAIN cache' = DOMAIN cache \cup {calls[c].key}
             /\ \A k \in DOMAIN cache \ {calls[c].key} : cache'[k] = cache[k]
             /\ cache'[calls[c].key].timestamp = now'
             /\ cache'[calls[c].key].data = calls'[c].value
             /\ calls[c].op = "harbors" =>
                   /\ calls'[c].value = parsedResponse[calls'[c].netData]
                   /\ \A i \in 1..Len(cache'[calls[c].key].data) :
                         cache'[calls[c].key].data[i].type = "harbor"]_vars

\* A harbour fetch has just succeeded, later than a fetch for another key:
\* the cache holds the older entry and the parsed harbours with the time of
\* the settlement.
C27_Witness ==
    \E c \in CallIds :
        /\ calls[c].op = "harbors"
        /\ calls[c].state = "resolved" /\ calls[c].netOutcome = "ok"
        /\ now > 0
        /\ cache[calls[c].key] = [data |-> calls[c].value, timestamp |-> now]
        /\ Len(calls[c].value) > 0
        /\ \E k \in DOMAIN cache \ {calls[c].key} : cache[k].timestamp = 0

\* The harbour layer of the store.
HarborLayer == mapSettings.layers["harborFacilities"]

\* C28: every harbour load ends with the loading flag of the harbour layer
\* false; when the fetch succeeded the layer's error is null and lastUpdated
\* is the time of the end, when it failed the error is a message and
\* lastUpdated is what it was.
C28_LoadEndsWithItsOutcome ==
    [][/\ \A c \in harborLoads :
            calls[c].state = "inflight" =>
                /\ calls'[c].state = "resolved" =>
                      /\ ~HarborLayer'.loading
                      /\ HarborLayer'.error = Null
                      /\ HarborLayer'.lastUpdated = Some(now')
                /\ calls'[c].state = "rejected" =>
                      /\ ~HarborLayer'.loading
                      /\ HarborLayer'.error # Null
                      /\ HarborLayer'.lastUpdated = HarborLayer.lastUpdated
       /\ (Len(calls') > Len(calls) /\ calls'[Len(calls')].state = "resolved") =>
             /\ ~HarborLayer'.loading
             /\ HarborLayer'.error = Null
             /\ HarborLayer'.lastUpdated = Some(now')]_vars

\* The fields of a LayerState (types/maritime.ts, lines 40-45).
LayerFields == {"visible", "loading", "error", "lastUpdated"}

\* Every layer of the stored item is, in the settings, a layer with all four
\* fields: those of the item as the item has them, the others as in the
\* default.
LayersMergedOntoDefaults(settings, item) ==
    (item.kind = "object" /\ "layers" \in DOMAIN item.value) =>
        \A l \in (DOMAIN item.value.layers) \cap LayerNames :
            /\ LayerFields \subseteq DOMAIN settings.layers[l]
            /\ \A f \in LayerFields :
                  settings.layers[l][f] =
                      IF f \in DOMAIN item.value.layers[l]
                      THEN item.value.layers[l][f]
                      ELSE createDefaultLayerState[f]

\* C29: loadSettings merges every persisted layer onto its default: a
\* persisted layer that lacks some of the fields visible, loading, error,
\* lastUpdated is loaded with all four, the absent ones with their defaults.
C29_LayersAreDeepMerged ==
    [][Did("loadSettings", "")
          => LayersMergedOntoDefaults(mapSettings', storage)]_vars

\* Everything of the store but the field of the layer is as it was.
OnlyChanges(layerName, field) ==
    /\ windyOptions' = windyOptions
    /\ defaultWindyOptions' = defaultWindyOptions
    /\ userLocation' = userLocation
    /\ storage' = storage
    /\ measurementPaths' = measurementPaths
    /\ activeMeasurementId' = activeMeasurementId
    /\ DOMAIN mapSettings' = DOMAIN mapSettings
    /\ \A k \in DOMAIN mapSettings \ {"layers"} : mapSettings'[k] = mapSettings[k]
    /\ DOMAIN mapSettings'.layers = DOMAIN mapSettings.layers
    /\ \A l \in DOMAIN mapSettings.layers \ {layerName} :
          mapSettings'.layers[l] = mapSettings.layers[l]
    /\ layerName \in DOMAIN mapSettings.layers =>
          /\ DOMAIN mapSettings'.layers[layerName] =
                DOMAIN mapSettings.layers[layerName] \cup {field}
          /\ \A f \in DOMAIN mapSettings.layers[layerName] \ {field} :
                mapSettings'.layers[layerName][f] = mapSettings.layers[layerName][f]

\* C30: setLayerLoading and setLayerError change only the loading field,
\* respectively the error field, of the named layer; every other field of the
\* layer, every other layer, center, zoom, windyOptions, the measurement paths
\* and the stored item stay as they are, and for an unknown layer nothing
\* changes.
C30_LayerSettersChangeOneField ==
    [][\A n \in ToggledLayers :
          /\ Did("setLayerLoading", n) =>
                /\ OnlyChanges(n, "loading")
                /\ n \in DOMAIN mapSettings.layers =>
                      mapSettings'.layers[n].loading \in BOOLEAN
          /\ Did("setLayerError", n) =>
                /\ OnlyChanges(n, "error")
                /\ n \in DOMAIN mapSettings.layers =>
                      mapSettings'.layers[n].error \in LayerErrors]_vars

\* A path has been measured, the error of the sea marks has been set and then
\* their loading flag: the error and the path are still there.
C30_Witness ==
    /\ opLog = <<[op |-> "setLayerError", arg |-> "seaMarks"],
                 [op |-> "setLayerLoading", arg |-> "seaMarks"]>>
    /\ mapSettings.layers["seaMarks"].error = Some("Failed to load depth data")
    /\ mapSettings.layers["seaMarks"].loading
    /\ measurementPaths # << >>
    /\ storage = OldVersionItem

\* C31: every latitude line of the grid is at a latitude from -90 to 90 and
\* every longitude line at a longitude from -180 to 180, at every zoom level
\* and for every view, also one whose bounds reach beyond the valid range.
C31_LinesInValidRange ==
    GridDrawn =>
        /\ \A i \in 1..Len(LatLines) :
              LessEq(Num(-90), LatLines[i]) /\ LessEq(LatLines[i], Num(90))
        /\ \A i \in 1..Len(LngLines) :
              LessEq(Num(-180), LngLines[i]) /\ LessEq(LngLines[i], Num(180))

\* The grid of a view that reaches beyond the valid range on every side: its
\* lines run from -90 to 90 and from -180 to the east end of the view.
C31_Witness ==
    /\ GridDrawn
    /\ Less(gridBounds.sw[1], Num(-90)) /\ Less(Num(90), gridBounds.ne[1])
    /\ Less(gridBounds.sw[2], Num(-180))
    /\ LatLines[1] = Num(-90) /\ LatLines[Len(LatLines)] = Num(90)
    /\ LngLines[1] = Num(-180)

\* The stored path with an id, where the store holds one.
StoredPath(paths, id) == paths[findIndex(paths, id)]

\* C32: a stored path keeps its points and its distance, which is the path
\* distance of its points, for as long as it is stored: every step of the tool
\* and of the store leaves a path that stays in the store as it was.
C32_StoredPathsNeverChange ==
    /\ [](\A i \in 1..Len(measurementPaths) :
            measurementPaths[i].distance =
                calculatePathDistance(Coordinates(measurementPaths[i].points)))
    /\ [][\A i \in 1..Len(measurementPaths') :
            findIndex(measurementPaths, measurementPaths'[i].id) # -1 =>
                measurementPaths'[i] =
                    StoredPath(measurementPaths, measurementPaths'[i].id)]_vars

\* A point has been added to the second measurement while the first one is
\* stored.
C32_Witness ==
    /\ toolOp = "handleMapClick"
    /\ isMeasuring
    /\ Len(currentPath) = 2
    /\ Len(measurementPaths) = 1
    /\ Len(measurementPaths[1].points) = 3

\* C33: while a fetch started by loadHarborFacilities has not settled, the
\* loading flag of the harbour layer is true, also when several loads overlap:
\* it becomes false only when the last one has settled.
C33_LoadingWhileAnyLoadIsOut ==
    harborLoads # {} => HarborLayer.loading

\* The load started last.
LastLoad == Len(calls)

\* C34: when harbour loads overlap and settle in any order, the harbours held
\* for display after all have settled are those of the load started last: the
\* load started last puts its result on display when it resolves, and a load
\* started earlier that resolves after it leaves the display alone.
C34_LastStartedLoadIsDisplayed ==
    [][\A c \in harborLoads :
          (calls[c].state = "inflight" /\ calls'[c].state = "resolved") =>
              /\ c = LastLoad => harborFacilities' = calls'[c].value
              /\ (c < LastLoad /\ calls[LastLoad].state = "resolved") =>
                    harborFacilities' = harborFacilities]_vars

\* A load of a layer is in progress: the component awaits a harbour fetch;
\* the other layers are not loaded here.
LoadInProgress(layerName) == layerName = "harborFacilities" /\ harborLoads # {}

\* C35: the loading flag of a layer is true only while a load of the layer is
\* in progress, in every state of every session, also of a session that
\* starts from settings stored while a load was in flight.
C35_LoadingOnlyWhileLoading ==
    \A layerName \in DOMAIN mapSettings.layers :
        mapSettings.layers[layerName].loading => LoadInProgress(layerName)

\* C36: the active id is null or the id of a path in measurementPaths, after
\* any sequence of additions, removals and clearings, so activeMeasurement is
\* null exactly when the active id is null.
C36_ActiveIdIsStored ==
    /\ activeMeasurementId # Null =>
          \E i \in 1..Len(measurementPaths) :
              measurementPaths[i].id = activeMeasurementId[1]
    /\ activeMeasurement(Store) = Null <=> activeMeasurementId = Null
    /\ activeMeasurement(Store) # Null =>
          activeMeasurement(Store)[1].id = activeMeasurementId[1]

\* The first of two stored paths has been removed and the second one, added
\* last, is still the active one.
C36_Witness ==
    /\ toolOp = "removeMeasurementPath"
    /\ PathIds(measurementPaths) = <<2>>
    /\ activeMeasurementId = Some(2)
    /\ activeMeasurement(Store) = Some(measurementPaths[1])

\* C37: between the steps of the queue the processingQueue flag is true
\* exactly while a processQueue loop is active, there is never more than one
\* such loop, and while the flag is false no request is pending.
C37_FlagMeansOneLoop ==
    /\ Cardinality(loops) <= 1
    /\ processingQueue <=> loops # {}
    /\ ~processingQueue => requestQueue = << >>

\* The loop waits out the delay after a task while another request is
\* pending, and after the loop has ended the flag is false again.
C37_Witness ==
    /\ processingQueue
    /\ \E l \in loops : l.pc = "delay"
    /\ Len(requestQueue) >= 1
    /\ Len(startOrder) >= 1

\* The lines reach from the low bound to the high bound or beyond.
LinesReach(lines, low, high) ==
    /\ lines # << >>
    /\ LessEq(lines[1], low)
    /\ LessEq(high, lines[Len(lines)])

\* Consecutive lines are the spacing apart.
LinesEvenlySpaced(lines, spacing) ==
    \A i \in 1..(Len(lines) - 1) : Minus(lines[i + 1], lines[i]) = spacing

\* The range test of the latitude loop has dropped no line.
NoLineClipped ==
    LatLines =
        LET g == GridConstants(gridLines.spacing, TRUE, gridBounds.sw, gridBounds.ne)
            OfKind(layer) == layer.kind = "latLine"
            unclipped == SelectSeq(latLoop_NoRangeTest(g, g.startLat, << >>), OfKind)
        IN  [i \in 1..Len(unclipped) |-> unclipped[i].latlngs[1][1]]

\* C38: for bounds inside the valid range no line is dropped by the range
\* test and the lines cover the view: on each axis the first line is at or
\* below the low bound, the last line at or above the high bound, and
\* consecutive lines are exactly the spacing apart.
C38_LinesCoverTheView ==
    GridDrawn /\ InsideValidRange =>
        /\ NoLineClipped
        /\ LinesReach(LatLines, gridBounds.sw[1], gridBounds.ne[1])
        /\ LinesReach(LngLines, gridBounds.sw[2], gridBounds.ne[2])
        /\ LinesEvenlySpaced(LatLines, gridLines.spacing.latSpacing)
        /\ LinesEvenlySpaced(LngLines, gridLines.spacing.lngSpacing)

\* The number a label shows in front of a mark (the degree sign, the minute
\* sign, the second sign), -1 where the label does not have the mark.
Shown(label, mark) ==
    IF \A i \in 1..Len(label) : label[i] # mark THEN -1
    ELSE LET p == CHOOSE i \in 1..Len(label) : label[i] = mark
             q == CHOOSE i \in 1..(p - 1) :
                     label[i] = " " /\ \A j \in (i + 1)..(p - 1) : label[j] # " "
         IN  parseInt(SubSeq(label, q + 1, p - 1))

\* The label of a coordinate is well formed: the letter of the hemisphere,
\* the whole degrees, and minutes and seconds that are shown only from 1 to 59.
WellFormedLabel(label, x, positive, negative) ==
    /\ label[1] = (IF LessEq(Zero, x) THEN positive ELSE negative)
    /\ Shown(label, "°") = Integer(MathFloor(MathAbs(x)))
    /\ Shown(label, "'") \in {-1} \cup 1..59
    /\ Shown(label, "\"") \in {-1} \cup 1..59

\* C39: the label of every grid line shows the letter of the hemisphere (N
\* or E from 0 on, S or W below), the whole degrees, and the minutes and the
\* seconds only when they are not 0; the minutes and seconds shown are from 1
\* to 59, the rounding of the seconds never shows 60.
C39_LabelsAreWellFormed ==
    GridDrawn =>
        \A i \in 1..Len(gridLines.layers) :
            LET layer == gridLines.layers[i]
            IN  /\ layer.kind = "latLabel" =>
                      WellFormedLabel(layer.html, layer.latlngs[1][1], "N", "S")
                /\ layer.kind = "lngLabel" =>
                      WellFormedLabel(layer.html, layer.latlngs[1][2], "E", "W")
====
